---- MODULE Spec2Model ----
(***************************************************************************)
(* Model of the endpoints of the API suite (src/main.py, src/apis).        *)
(*                                                                         *)
(* Content moderation.  A text is a sequence of words joined by single     *)
(* spaces.  A word is one of the strings of Vocabulary; str_lower, WordLen *)
(* and UpperCount give its lower-case form, its number of characters and   *)
(* its number of upper-case characters.  Every regular expression of the   *)
(* source is modelled by the number of words a match that starts at a      *)
(* given word consumes (MatchLenAt), from which re_search and re_findall   *)
(* are computed as Python's re module computes them (leftmost,             *)
(* non-overlapping).                                                       *)
(*                                                                         *)
(* Scores are kept exactly, in hundredths: 0.8 is 80, the strictness       *)
(* factors 1.5 and 0.7 are 15/10 and 7/10.  Every sum of weights is a      *)
(* multiple of 10, so the product is an integer number of hundredths.      *)
(* The source computes in IEEE doubles; for every combination of signals   *)
(* the double lies within one unit in the last place of the exact value    *)
(* and falls on the same side of 0.4, 0.6, 0.8 and 1.0.                    *)
(***************************************************************************)
EXTENDS Integers, Sequences, FiniteSets, TLC

VARIABLES
    HATE_SPEECH_PATTERNS,   \* module-level list of hate-speech rules
    SPAM_PATTERNS,          \* module-level list of spam rules
    PROFANITY_PATTERNS,     \* module-level list of profanity rules
    MOCK_PRICES,            \* module-level table of prices
    MOCK_WEATHER_DATA,      \* module-level table of weather per location
    EMOTION_KEYWORDS,       \* module-level table of keywords per emotion
    DISPOSABLE_DOMAINS,     \* module-level set of disposable domains
    ROLE_ACCOUNTS,          \* module-level set of role account names
    now,                    \* the clock datetime.now() reads
    request,                \* the request the last handler served
    response,               \* the response the last handler returned
    earlier                 \* a request/response pair served before (history)

moderation_config ==
    <<HATE_SPEECH_PATTERNS, SPAM_PATTERNS, PROFANITY_PATTERNS>>

other_config ==
    <<MOCK_PRICES, MOCK_WEATHER_DATA, EMOTION_KEYWORDS, DISPOSABLE_DOMAINS,
      ROLE_ACCOUNTS>>

config == <<moderation_config, other_config>>

vars == <<config, now, request, response, earlier>>

----------------------------------------------------------------------------
(* Bounds *)

MaxLen == 3        \* words in a request text
MaxDetLen == 1     \* words in a request text of the history specification

----------------------------------------------------------------------------
(* Words and texts *)

\* Words that reach every hate-speech rule, three of the four spam rules
\* (the two-word phrases of the first one are left out) and both profanity
\* rules; "fucker" matches both profanity rules, "all" alone matches none.
Vocabulary ==
    {"HELLO", "NAZI", "raped", "kill", "all", "jews", "bomb",
     "discount", "guaranteed", "http://x", "shit", "fucker"}

str_lower(word) ==
    CASE word = "HELLO" -> "hello"
      [] word = "NAZI"  -> "nazi"
      [] OTHER          -> word

WordLen(word) ==
    CASE word = "all"                                          -> 3
      [] word \in {"NAZI", "kill", "jews", "bomb", "shit"}     -> 4
      [] word \in {"HELLO", "raped"}                           -> 5
      [] word = "fucker"                                       -> 6
      [] word \in {"discount", "http://x"}                     -> 8
      [] word = "guaranteed"                                   -> 10

UpperCount(word) ==
    CASE word = "HELLO" -> 5
      [] word = "NAZI"  -> 4
      [] OTHER          -> 0

\* the characters of the words of text from word i on
RECURSIVE CharsFrom(_, _)
CharsFrom(text, i) ==
    IF i > Len(text) THEN 0 ELSE WordLen(text[i]) + CharsFrom(text, i + 1)

\* the upper-case characters of the words of text from word i on
RECURSIVE UpperFrom(_, _)
UpperFrom(text, i) ==
    IF i > Len(text) THEN 0 ELSE UpperCount(text[i]) + UpperFrom(text, i + 1)

\* len(text): the characters of the words and one space between two words
text_len(text) ==
    IF text = <<>> THEN 0 ELSE CharsFrom(text, 1) + (Len(text) - 1)

\* sum(1 for c in text if c.isupper())
upper_chars(text) == UpperFrom(text, 1)

\* text.lower()
text_lower_of(text) == [i \in DOMAIN text |-> str_lower(text[i])]

TextsUpTo(n) == UNION {[1..k -> Vocabulary] : k \in 0..n}

----------------------------------------------------------------------------
(* The rules.  A rule is named by its group and its position in the list. *)

\* The words that \b(alt)\w*\b matches: an alternative, or a word of the
\* vocabulary that starts with one.
WordsFrom(alts, derived) == alts \cup derived

HateVerbs    == {"kill", "murder", "death"}
Quantifiers  == {"all", "every"}
HateTargets  == WordsFrom({"black", "white", "jew", "muslim", "gay", "trans"},
                          {"jews"})
HateNames    == {"hitler", "nazi", "supremacy", "genocide"}
HateAbuse    == WordsFrom({"rape", "pedo"}, {"raped"})
HateViolence == {"bomb", "terrorist", "attack"}
SpamSingles2 == {"guaranteed"}
SpamSingles3 == {"discount", "sale"}
SpamUrls     == {"http://x"}
Profanity1   == WordsFrom({"fuck", "shit", "bitch", "asshole", "dick",
                           "pussy", "cunt"}, {"fucker"})
Profanity2   == WordsFrom({"motherfucker", "fucker", "bastard", "whore",
                           "slut"}, {})

\* The words a pair of consecutive words must be to match a two-word phrase
IsPhrase(w, i, first, second) ==
    /\ i + 1 <= Len(w)
    /\ w[i] = first
    /\ w[i + 1] = second

\* The number of words consumed by a match of the rule that starts at word
\* i of the lower-cased text w, 0 when no match starts there.
MatchLenAt(pattern, w, i) ==
    CASE pattern = "H1" ->
           \* \b(kill|murder|death)\s+(all|every)\s+(black|...|trans)\w*\b
           IF /\ i + 2 <= Len(w)
              /\ w[i] \in HateVerbs
              /\ w[i + 1] \in Quantifiers
              /\ w[i + 2] \in HateTargets
           THEN 3 ELSE 0
      [] pattern = "H2" ->
           \* \b(hitler|nazi|supremacy|genocide)\b
           IF w[i] \in HateNames THEN 1 ELSE 0
      [] pattern = "H3" ->
           \* \b(rape|pedo|child\s+molest)\w*\b
           IF w[i] \in HateAbuse THEN 1
           ELSE IF IsPhrase(w, i, "child", "molest") THEN 2 ELSE 0
      [] pattern = "H4" ->
           \* \b(bomb|terrorist|attack)\s+(all|every)\s+\w+\b
           IF /\ i + 2 <= Len(w)
              /\ w[i] \in HateViolence
              /\ w[i + 1] \in Quantifiers
           THEN 3 ELSE 0
      [] pattern = "S1" ->
           \* \b(buy\s+now|limited\s+time|act\s+fast|click\s+here)\b
           IF \/ IsPhrase(w, i, "buy", "now")
              \/ IsPhrase(w, i, "limited", "time")
              \/ IsPhrase(w, i, "act", "fast")
              \/ IsPhrase(w, i, "click", "here")
           THEN 2 ELSE 0
      [] pattern = "S2" ->
           \* \b(free\s+offer|money\s+back|guaranteed|no\s+risk)\b
           IF w[i] \in SpamSingles2 THEN 1
           ELSE IF \/ IsPhrase(w, i, "free", "offer")
                   \/ IsPhrase(w, i, "money", "back")
                   \/ IsPhrase(w, i, "no", "risk")
                THEN 2 ELSE 0
      [] pattern = "S3" ->
           \* \b(earn\s+\$\d+|\d+\%\s+off|discount|sale)\b
           IF w[i] \in SpamSingles3 THEN 1 ELSE 0
      [] pattern = "S4" ->
           \* http[s]?://(?:...)+
           IF w[i] \in SpamUrls THEN 1 ELSE 0
      [] pattern = "P1" ->
           \* \b(fuck|shit|bitch|asshole|dick|pussy|cunt)\w*\b
           IF w[i] \in Profanity1 THEN 1 ELSE 0
      [] pattern = "P2" ->
           \* \b(motherfucker|fucker|bastard|whore|slut)\w*\b
           IF w[i] \in Profanity2 THEN 1 ELSE 0

\* re.search(pattern, w): is there a match anywhere
re_search(pattern, w) == \E i \in DOMAIN w : MatchLenAt(pattern, w, i) > 0

\* len(re.findall(pattern, w)): the leftmost non-overlapping matches
RECURSIVE FindallFrom(_, _, _)
FindallFrom(pattern, w, i) ==
    IF i > Len(w) THEN 0
    ELSE LET n == MatchLenAt(pattern, w, i)
         IN  IF n > 0 THEN 1 + FindallFrom(pattern, w, i + n)
                      ELSE FindallFrom(pattern, w, i + 1)

re_findall(pattern, w) == FindallFrom(pattern, w, 1)

HateSpeechPatternList == <<"H1", "H2", "H3", "H4">>
SpamPatternList       == <<"S1", "S2", "S3", "S4">>
ProfanityPatternList  == <<"P1", "P2">>

----------------------------------------------------------------------------
(* analyze_content *)

HateSpeechWeight == 80     \* risk_score += 0.8
SpamWeight == 60           \* risk_score += 0.6
ProfanityWeight == 30      \* risk_score += 0.3 * min(profanity_count, 3)
ProfanityCap == 3
CapsWeight == 20           \* risk_score += 0.2
SpamThreshold == 2         \* spam_count >= 2
CapsMinLength == 10        \* len(text) > 10
CriticalBound == 80        \* risk_score >= 0.8
HighBound == 60            \* risk_score >= 0.6
MediumBound == 40          \* risk_score >= 0.4
ScoreOne == 100            \* min(1.0, risk_score)

Min(a, b) == IF a <= b THEN a ELSE b

\* the lists of at most n elements of S
RECURSIVE ListsUpTo(_, _)
ListsUpTo(S, n) ==
    IF n = 0 THEN {<<>>}
    ELSE ListsUpTo(S, n - 1)
         \cup {Append(l, x) : l \in {m \in ListsUpTo(S, n - 1) :
                                        Len(m) = n - 1},
                              x \in S}

Repeat(x, n) == [i \in 1..n |-> x]

\* a / b as a fraction; Python raises ZeroDivisionError when b = 0
Divide(a, b) == [num |-> a, den |-> b]
ZeroDivisionError(q) == q.den = 0

\* for pattern in PROFANITY_PATTERNS: profanity_count += len(findall(...))
RECURSIVE FindallTotal(_, _, _)
FindallTotal(patterns, w, i) ==
    IF i > Len(patterns) THEN 0
    ELSE re_findall(patterns[i], w) + FindallTotal(patterns, w, i + 1)

\* SearchHits counting every match of a rule instead of the rules that match
SearchHits_every_match(patterns, w, i) == FindallTotal(patterns, w, i)

\* for pattern in HATE_SPEECH_PATTERNS: if re.search(...): the number of
\* rules of the list, from position i on, that have a match in w
RECURSIVE SearchHits(_, _, _)
SearchHits(patterns, w, i) ==
    IF i > Len(patterns) THEN 0
    ELSE (IF re_search(patterns[i], w) THEN 1 ELSE 0)
         + SearchHits(patterns, w, i + 1)

\* the number of "hate_speech" entries appended to issues
hate_speech_hits(text) ==
    SearchHits(HATE_SPEECH_PATTERNS, text_lower_of(text), 1)

spam_count(text) == SearchHits(SPAM_PATTERNS, text_lower_of(text), 1)

profanity_count(text) ==
    FindallTotal(PROFANITY_PATTERNS, text_lower_of(text), 1)

\* caps_ratio without the test for the empty text
caps_ratio_unguarded(text) == Divide(upper_chars(text), text_len(text))

\* sum(...) / len(text) if text else 0
caps_ratio(text) ==
    IF text # <<>> THEN Divide(upper_chars(text), text_len(text))
                   ELSE Divide(0, 1)

\* caps_ratio > 0.7 and len(text) > 10
excessive_caps(text) ==
    /\ 10 * caps_ratio(text).num > 7 * caps_ratio(text).den
    /\ text_len(text) > CapsMinLength

\* issues, in the order the checks append to it
flagged_issues(text) ==
    Repeat("hate_speech", hate_speech_hits(text))
    \o (IF spam_count(text) >= SpamThreshold THEN <<"spam">> ELSE <<>>)
    \o (IF profanity_count(text) > 0 THEN <<"profanity">> ELSE <<>>)
    \o (IF excessive_caps(text) THEN <<"excessive_caps">> ELSE <<>>)

\* base_risk_score with the spam comparison inverted (spam_count < 2)
base_risk_score_spam_inverted(text) ==
    LET r1 == HateSpeechWeight * hate_speech_hits(text)
        r2 == IF spam_count(text) < SpamThreshold
              THEN r1 + SpamWeight ELSE r1
        r3 == IF profanity_count(text) > 0
              THEN r2 + ProfanityWeight * Min(profanity_count(text), ProfanityCap)
              ELSE r2
    IN  IF excessive_caps(text) THEN r3 + CapsWeight ELSE r3

\* base_risk_score without the cap on the profanity count
base_risk_score_uncapped(text) ==
    LET r1 == HateSpeechWeight * hate_speech_hits(text)
        r2 == IF spam_count(text) >= SpamThreshold
              THEN r1 + SpamWeight ELSE r1
        r3 == IF profanity_count(text) > 0
              THEN r2 + ProfanityWeight * profanity_count(text)
              ELSE r2
    IN  IF excessive_caps(text) THEN r3 + CapsWeight ELSE r3

\* risk_score before the strictness adjustment
base_risk_score(text) ==
    LET r0 == 0
        r1 == r0 + HateSpeechWeight * hate_speech_hits(text)
        r2 == IF spam_count(text) >= SpamThreshold
              THEN r1 + SpamWeight ELSE r1
        r3 == IF profanity_count(text) > 0
              THEN r2 + ProfanityWeight * Min(profanity_count(text), ProfanityCap)
              ELSE r2
        r4 == IF excessive_caps(text) THEN r3 + CapsWeight ELSE r3
    IN  r4

\* adjust_strictness with a plain else in place of elif strictness == "low"
adjust_strictness_else_low(score, strictness) ==
    IF strictness = "high" THEN (score * 15) \div 10
    ELSE (score * 7) \div 10

\* adjust_strictness with the two factors exchanged
adjust_strictness_swapped(score, strictness) ==
    IF strictness = "high" THEN (score * 7) \div 10
    ELSE IF strictness = "low" THEN (score * 15) \div 10
    ELSE score

\* adjust_strictness with 0.5 in place of 0.7
adjust_strictness_low_half(score, strictness) ==
    IF strictness = "high" THEN (score * 15) \div 10
    ELSE IF strictness = "low" THEN (score * 5) \div 10
    ELSE score

\* if strictness == "high": *= 1.5   elif strictness == "low": *= 0.7
adjust_strictness(score, strictness) ==
    IF strictness = "high" THEN (score * 15) \div 10
    ELSE IF strictness = "low" THEN (score * 7) \div 10
    ELSE score

\* risk_score with the caps check moved after the strictness adjustment
risk_score_caps_after(text, strictness) ==
    LET caps == IF excessive_caps(text) THEN CapsWeight ELSE 0
    IN  adjust_strictness(base_risk_score(text) - caps, strictness) + caps

risk_score(text, strictness) ==
    adjust_strictness(base_risk_score(text), strictness)

\* classify with the last band bounded and no else branch
classify_gap(score) ==
    IF score >= CriticalBound
    THEN [risk_level |-> "critical", suggested_action |-> "block"]
    ELSE IF score >= HighBound
    THEN [risk_level |-> "high", suggested_action |-> "flag_for_review"]
    ELSE IF score >= MediumBound
    THEN [risk_level |-> "medium", suggested_action |-> "warn"]
    ELSE IF score < 30
    THEN [risk_level |-> "low", suggested_action |-> "allow"]
    ELSE [risk_level |-> "unbound", suggested_action |-> "unbound"]

\* classify with > in place of >=
classify_strict(score) ==
    IF score > CriticalBound
    THEN [risk_level |-> "critical", suggested_action |-> "block"]
    ELSE IF score > HighBound
    THEN [risk_level |-> "high", suggested_action |-> "flag_for_review"]
    ELSE IF score > MediumBound
    THEN [risk_level |-> "medium", suggested_action |-> "warn"]
    ELSE [risk_level |-> "low", suggested_action |-> "allow"]

\* the if/elif/else chain over the bands
classify(score) ==
    IF score >= CriticalBound
    THEN [risk_level |-> "critical", suggested_action |-> "block"]
    ELSE IF score >= HighBound
    THEN [risk_level |-> "high", suggested_action |-> "flag_for_review"]
    ELSE IF score >= MediumBound
    THEN [risk_level |-> "medium", suggested_action |-> "warn"]
    ELSE [risk_level |-> "low", suggested_action |-> "allow"]

\* confidence_score without min(1.0, ...)
confidence_score_unclamped(score) == score

\* min(1.0, risk_score)
confidence_score(score) == Min(ScoreOne, score)

\* is_appropriate with the bound of the critical band
is_appropriate_below_critical(score) == score < CriticalBound

\* "is_appropriate": risk_score < 0.6
is_appropriate(score) == score < HighBound

\* the function raises (ZeroDivisionError) instead of returning
analyze_content_raises(text) == ZeroDivisionError(caps_ratio(text))

analyze_content(text, content_type, strictness) ==
    LET score  == risk_score(text, strictness)
        issues == flagged_issues(text)
    IN  [is_appropriate    |-> is_appropriate(score),
         confidence_score  |-> confidence_score(score),
         flagged_issues    |-> issues,
         risk_level        |-> classify(score).risk_level,
         suggested_action  |-> classify(score).suggested_action,
         moderation_details |->
            [hate_speech_detected |->
                 \E i \in DOMAIN issues : issues[i] = "hate_speech",
             spam_detected |-> \E i \in DOMAIN issues : issues[i] = "spam",
             profanity_count  |-> profanity_count(text),
             caps_ratio       |-> caps_ratio(text),
             text_length      |-> text_len(text),
             content_type     |-> content_type,
             strictness_level |-> strictness]]

----------------------------------------------------------------------------
(* Cryptocurrency analytics (src/apis/crypto_analytics_api.py)             *)
(*                                                                         *)
(* Prices are in units of 100 USD and quantities in halves, so that values *)
(* are in units of 50 USD: 1.5 BTC at 45000 is 3 * 450 = 1350.  Only the   *)
(* symbols whose price is a multiple of 100 USD are in the table.  A       *)
(* percentage is kept as the fraction it is 100 times of.  The square root *)
(* (volatility) and diversification_score of the risk analysis are not     *)
(* represented.                                                            *)

MockPriceTable == ("BTC" :> 450) @@ ("ETH" :> 32)

\* symbol.upper()
symbol_upper(symbol) ==
    CASE symbol = "btc" -> "BTC"
      [] symbol = "xyz" -> "XYZ"
      [] OTHER          -> symbol

\* MOCK_PRICES.get(symbol.upper(), 0.0)
get_current_price(symbol) ==
    IF symbol_upper(symbol) \in DOMAIN MOCK_PRICES
    THEN MOCK_PRICES[symbol_upper(symbol)]
    ELSE 0

\* a / b * 100, kept as the fraction a / b
Percent(a, b) == [num |-> a, den |-> b]
ZeroPercent == Percent(0, 1)

\* p < q for fractions with positive denominators
PercentLess(p, q) == p.num * q.den < q.num * p.den

\* the body of the loop over the assets
asset_data(asset) ==
    LET current_price  == get_current_price(asset.symbol)
        current_value  == asset.quantity * current_price
        invested_value == asset.quantity * asset.purchase_price
        profit_loss    == current_value - invested_value
    IN  [symbol         |-> asset.symbol,
         quantity       |-> asset.quantity,
         purchase_price |-> asset.purchase_price,
         current_price  |-> current_price,
         current_value  |-> current_value,
         invested_value |-> invested_value,
         profit_loss    |-> profit_loss,
         profit_loss_percentage |->
             IF invested_value > 0
             THEN Percent(profit_loss, invested_value) ELSE ZeroPercent,
         weight         |-> ZeroPercent]

\* total_invested += invested_value, over the assets from i on
RECURSIVE InvestedFrom(_, _)
InvestedFrom(assets, i) ==
    IF i > Len(assets) THEN 0
    ELSE asset_data(assets[i]).invested_value + InvestedFrom(assets, i + 1)

\* total_current_value += current_value, over the assets from i on
RECURSIVE CurrentValueFrom(_, _)
CurrentValueFrom(assets, i) ==
    IF i > Len(assets) THEN 0
    ELSE asset_data(assets[i]).current_value + CurrentValueFrom(assets, i + 1)

\* calculate_portfolio_metrics with the difference of the totals reversed
calculate_portfolio_metrics_reversed(assets) ==
    LET total_invested      == InvestedFrom(assets, 1)
        total_current_value == CurrentValueFrom(assets, 1)
    IN  [portfolio_data |->
            [i \in DOMAIN assets |->
                [asset_data(assets[i]) EXCEPT !.weight =
                    IF total_current_value > 0
                    THEN Percent(asset_data(assets[i]).current_value,
                                 total_current_value)
                    ELSE ZeroPercent]],
         total_invested      |-> total_invested,
         total_current_value |-> total_current_value,
         total_profit_loss   |-> total_invested - total_current_value,
         total_profit_loss_percentage |->
             IF total_invested > 0
             THEN Percent(total_invested - total_current_value,
                          total_invested)
             ELSE ZeroPercent]

calculate_portfolio_metrics(assets) ==
    LET total_invested      == InvestedFrom(assets, 1)
        total_current_value == CurrentValueFrom(assets, 1)
    IN  [portfolio_data |->
            [i \in DOMAIN assets |->
                [asset_data(assets[i]) EXCEPT !.weight =
                    IF total_current_value > 0
                    THEN Percent(asset_data(assets[i]).current_value,
                                 total_current_value)
                    ELSE ZeroPercent]],
         total_invested      |-> total_invested,
         total_current_value |-> total_current_value,
         total_profit_loss   |-> total_current_value - total_invested,
         total_profit_loss_percentage |->
             IF total_invested > 0
             THEN Percent(total_current_value - total_invested,
                          total_invested)
             ELSE ZeroPercent]

\* the index of the first asset, from i on, with the largest (smallest)
\* profit_loss_percentage: max(portfolio_data, key=...), min(...)
RECURSIVE ArgMaxPct(_, _, _)
ArgMaxPct(data, i, best) ==
    IF i > Len(data) THEN best
    ELSE IF PercentLess(data[best].profit_loss_percentage,
                        data[i].profit_loss_percentage)
         THEN ArgMaxPct(data, i + 1, i)
         ELSE ArgMaxPct(data, i + 1, best)

RECURSIVE ArgMinPct(_, _, _)
ArgMinPct(data, i, best) ==
    IF i > Len(data) THEN best
    ELSE IF PercentLess(data[i].profit_loss_percentage,
                        data[best].profit_loss_percentage)
         THEN ArgMinPct(data, i + 1, i)
         ELSE ArgMinPct(data, i + 1, best)

\* max(weights)
RECURSIVE MaxWeight(_, _, _)
MaxWeight(data, i, best) ==
    IF i > Len(data) THEN best
    ELSE IF PercentLess(best, data[i].weight)
         THEN MaxWeight(data, i + 1, data[i].weight)
         ELSE MaxWeight(data, i + 1, best)

\* the sum of the squares of the numerators of the weights, from i on
RECURSIVE SquaresFrom(_, _)
SquaresFrom(data, i) ==
    IF i > Len(data) THEN 0
    ELSE data[i].weight.num * data[i].weight.num + SquaresFrom(data, i + 1)

\* hhi = sum(w**2 for w in weights), w = 100 * num / den with one den for
\* all the weights: hhi = 10000 * squares / den^2
herfindahl(data) ==
    [squares |-> SquaresFrom(data, 1),
     den2    |-> data[1].weight.den * data[1].weight.den]

\* hhi > 0.25: 40000 * squares > den^2
HhiAboveQuarter(hhi) == hhi.squares > hhi.den2 \div 40000

\* hhi > 0.15: 200000 * squares > 3 * den^2
HhiAboveMedium(hhi) ==
    hhi.squares > 3 * (hhi.den2 \div 200000)
                  + (3 * (hhi.den2 % 200000)) \div 200000

analyze_risk(portfolio_data) ==
    IF portfolio_data = <<>>
    THEN [risk_level |-> "unknown", diversification_score |-> 0,
          concentration_risk |-> "high"]
    ELSE LET hhi   == herfindahl(portfolio_data)
             level == IF HhiAboveQuarter(hhi) THEN "high"
                      ELSE IF HhiAboveMedium(hhi) THEN "medium"
                      ELSE "low"
         IN  [risk_level          |-> level,
              concentration_risk  |-> level,
              herfindahl_index    |-> hhi,
              max_position_weight |->
                  MaxWeight(portfolio_data, 2, portfolio_data[1].weight),
              asset_count         |-> Len(portfolio_data)]

\* risk_analysis["max_position_weight"] raises KeyError
generate_recommendations_raises(risk_analysis) ==
    "max_position_weight" \notin DOMAIN risk_analysis

\* asset["profit_loss_percentage"] < -10
Underperformers(portfolio_data) ==
    {i \in DOMAIN portfolio_data :
        10 * portfolio_data[i].profit_loss_percentage.num
            < 0 - portfolio_data[i].profit_loss_percentage.den}

generate_recommendations(portfolio_data, risk_analysis) ==
    LET r1 == IF risk_analysis.concentration_risk = "high"
              THEN <<"Consider diversifying your portfolio to reduce concentration risk">>
              ELSE <<>>
        r2 == IF Len(portfolio_data) < 5
              THEN <<"Consider adding more assets to improve diversification">>
              ELSE <<>>
        r3 == IF Underperformers(portfolio_data) # {}
              THEN <<"Review "
                     \o ToString(Cardinality(Underperformers(portfolio_data)))
                     \o " underperforming assets">>
              ELSE <<>>
        \* max_position_weight > 50
        r4 == IF 2 * risk_analysis.max_position_weight.num
                    > risk_analysis.max_position_weight.den
              THEN <<"Consider rebalancing to reduce exposure to your largest position">>
              ELSE <<>>
        recommendations == r1 \o r2 \o r3 \o r4
    IN  IF recommendations = <<>>
        THEN <<"Your portfolio appears well-balanced. Continue monitoring market conditions.">>
        ELSE recommendations

EmptyDict == [k \in {} |-> 0]

\* try: ... except Exception: HTTPException(500)
analyze_portfolio_response(assets) ==
    LET metrics        == calculate_portfolio_metrics(assets)
        portfolio_data == metrics.portfolio_data
        risk_analysis  == analyze_risk(portfolio_data)
    IN  IF generate_recommendations_raises(risk_analysis)
        THEN [status_code |-> 500, detail |-> "Portfolio analysis failed"]
        ELSE [status_code |-> 200,
              body |->
                [total_value            |-> metrics.total_current_value,
                 total_invested         |-> metrics.total_invested,
                 total_profit_loss      |-> metrics.total_profit_loss,
                 profit_loss_percentage |->
                     metrics.total_profit_loss_percentage,
                 best_performer |->
                     IF portfolio_data # <<>>
                     THEN portfolio_data[ArgMaxPct(portfolio_data, 2, 1)]
                     ELSE EmptyDict,
                 worst_performer |->
                     IF portfolio_data # <<>>
                     THEN portfolio_data[ArgMinPct(portfolio_data, 2, 1)]
                     ELSE EmptyDict,
                 portfolio_metrics |-> metrics,
                 risk_analysis     |-> risk_analysis,
                 recommendations   |->
                     generate_recommendations(portfolio_data, risk_analysis)]]

\* the HTTPException(404) raised inside the try block is an Exception: the
\* except clause catches it and raises HTTPException(500)
get_crypto_price_response(symbol) ==
    IF get_current_price(symbol) = 0
    THEN [status_code |-> 500, detail |-> "Price fetch failed"]
    ELSE [status_code |-> 200,
          body |-> [symbol |-> symbol_upper(symbol),
                    price_usd |-> get_current_price(symbol),
                    last_updated |-> now]]

TruncateAt == 100

\* the results of the loop of batch_moderate_content, from text i on; the
\* texts of the model are shorter than the 100 characters after which the
\* echoed text is cut
RECURSIVE BatchModerationResults(_, _, _, _)
BatchModerationResults(texts, content_type, strictness, i) ==
    IF i > Len(texts) THEN <<>>
    ELSE << [text |-> IF text_len(texts[i]) > TruncateAt
                      THEN <<"...">> ELSE texts[i],
             moderation_result |->
                 analyze_content(texts[i], content_type, strictness)] >>
         \o BatchModerationResults(texts, content_type, strictness, i + 1)

batch_moderate_content_response(texts, content_type, strictness) ==
    IF \E i \in DOMAIN texts : analyze_content_raises(texts[i])
    THEN [status_code |-> 500, detail |-> "Batch moderation failed"]
    ELSE [status_code |-> 200,
          body |-> [results |->
                        BatchModerationResults(texts, content_type,
                                               strictness, 1),
                    total_processed |-> Len(texts)]]

----------------------------------------------------------------------------
(* The tables of the other modules, as they are when the modules are       *)
(* loaded.                                                                 *)

\* src/apis/weather_business_api.py
Day(date, temp, condition, precipitation) ==
    [date |-> date, temp |-> temp, condition |-> condition,
     precipitation |-> precipitation]

MockWeatherTable ==
    ("New York" :>
        [current  |-> [temp |-> 22, humidity |-> 65, wind_speed |-> 12,
                       condition |-> "partly_cloudy"],
         forecast |-> << Day("2024-01-15", 20, "sunny", 0),
                         Day("2024-01-16", 18, "rainy", 15),
                         Day("2024-01-17", 25, "sunny", 0),
                         Day("2024-01-18", 22, "cloudy", 5),
                         Day("2024-01-19", 19, "stormy", 25),
                         Day("2024-01-20", 21, "partly_cloudy", 2),
                         Day("2024-01-21", 24, "sunny", 0) >>])
    @@
    ("Los Angeles" :>
        [current  |-> [temp |-> 28, humidity |-> 45, wind_speed |-> 8,
                       condition |-> "sunny"],
         forecast |-> << Day("2024-01-15", 26, "sunny", 0),
                         Day("2024-01-16", 27, "sunny", 0),
                         Day("2024-01-17", 29, "sunny", 0),
                         Day("2024-01-18", 25, "cloudy", 0),
                         Day("2024-01-19", 26, "sunny", 0),
                         Day("2024-01-20", 28, "sunny", 0),
                         Day("2024-01-21", 30, "sunny", 0) >>])

\* src/apis/sentiment_analysis_api.py
EmotionKeywordTable ==
    [joy |-> <<"happy", "excited", "great", "amazing", "wonderful",
               "fantastic", "love", "enjoy", "pleased", "thrilled">>,
     sadness |-> <<"sad", "depressed", "unhappy", "miserable",
                   "disappointed", "heartbroken", "grief", "sorrow",
                   "melancholy">>,
     anger |-> <<"angry", "furious", "mad", "irritated", "annoyed",
                 "frustrated", "outraged", "livid", "enraged">>,
     fear |-> <<"scared", "afraid", "terrified", "worried", "anxious",
                "nervous", "frightened", "panicked", "horrified">>,
     surprise |-> <<"surprised", "shocked", "amazed", "astonished",
                    "stunned", "bewildered", "startled">>,
     disgust |-> <<"disgusted", "revolted", "sickened", "appalled",
                   "repulsed", "nauseated">>,
     trust |-> <<"trust", "confident", "reliable", "faithful", "loyal",
                 "dependable", "secure">>,
     anticipation |-> <<"excited", "eager", "hopeful", "optimistic",
                        "enthusiastic", "looking forward">>]

\* src/apis/email_validation_api.py
DisposableDomainSet ==
    {"10minutemail.com", "guerrillamail.com", "mailinator.com",
     "tempmail.org", "throwaway.email", "fakeinbox.com", "sharklasers.com",
     "getairmail.com", "yopmail.com", "mailnesia.com", "maildrop.cc",
     "getnada.com", "mailmetrash.com", "trashmail.com", "mailnull.com",
     "spam4.me", "bccto.me", "chacuo.net", "dispostable.com"}

RoleAccountSet ==
    {"admin", "administrator", "info", "contact", "support", "help",
     "sales", "marketing", "hr", "human.resources", "jobs", "careers",
     "newsletter", "noreply", "no-reply", "donotreply", "do-not-reply",
     "webmaster", "postmaster", "abuse", "security", "billing", "accounts",
     "service", "customer.service", "customerservice", "feedback"}

----------------------------------------------------------------------------
(* Weather business intelligence (src/apis/weather_business_api.py) *)

\* MOCK_WEATHER_DATA.get(location, MOCK_WEATHER_DATA["New York"])
get_weather_data(location) ==
    IF location \in DOMAIN MOCK_WEATHER_DATA
    THEN MOCK_WEATHER_DATA[location]
    ELSE MOCK_WEATHER_DATA["New York"]

\* d.get(key), with the value that stands for None at this place
Get(d, key, none) == IF key \in DOMAIN d THEN d[key] ELSE none

\* sep.join(seq)
RECURSIVE Join(_, _)
Join(seq, sep) ==
    IF seq = <<>> THEN ""
    ELSE IF Len(seq) = 1 THEN seq[1]
    ELSE seq[1] \o sep \o Join(Tail(seq), sep)

\* seq[:3]
FirstThree(seq) == SubSeq(seq, 1, Min(3, Len(seq)))

Wet(condition) == condition \in {"rainy", "stormy"}

analyze_retail_impact(weather_data) ==
    LET current == weather_data.current
        temp_impact ==
            IF current.temp > 30 THEN "negative"
            ELSE IF current.temp < 5 THEN "negative"
            ELSE IF 15 <= current.temp /\ current.temp <= 25 THEN "positive"
            ELSE "neutral"
        precip_impact ==
            IF Wet(current.condition) THEN "negative" ELSE "positive"
        by_temp ==
            IF current.temp > 25
            THEN <<"summer clothing", "beverages", "sunscreen",
                   "outdoor items">>
            ELSE IF current.temp < 10
            THEN <<"winter clothing", "hot beverages",
                   "indoor entertainment">>
            ELSE <<>>
        by_rain ==
            IF Wet(current.condition)
            THEN <<"umbrellas", "rain gear", "indoor activities">>
            ELSE <<>>
        sales_forecast ==
            IF temp_impact = "positive" /\ precip_impact = "positive"
            THEN "high"
            ELSE IF temp_impact = "negative" \/ precip_impact = "negative"
            THEN "low"
            ELSE "stable"
    IN  [temperature_impact      |-> temp_impact,
         precipitation_impact    |-> precip_impact,
         product_recommendations |-> by_temp \o by_rain,
         sales_forecast          |-> sales_forecast,
         customer_traffic        |->
             IF sales_forecast = "high" THEN "high"
             ELSE IF sales_forecast = "low" THEN "low" ELSE "normal"]

\* sum(day["precipitation"] for day in forecast), from day i on
RECURSIVE PrecipitationFrom(_, _)
PrecipitationFrom(forecast, i) ==
    IF i > Len(forecast) THEN 0
    ELSE forecast[i].precipitation + PrecipitationFrom(forecast, i + 1)

analyze_agriculture_impact(weather_data) ==
    LET current  == weather_data.current
        forecast == weather_data.forecast
        temp_analysis ==
            IF current.temp > 35 THEN "stress"
            ELSE IF current.temp < 0 THEN "frost_risk"
            ELSE "optimal"
        total_precip == PrecipitationFrom(forecast, 1)
        precip_analysis ==
            IF total_precip < 10 THEN "drought_risk"
            ELSE IF total_precip > 50 THEN "flood_risk"
            ELSE "adequate"
        crop_recommendations ==
            IF current.temp > 20 /\ current.humidity > 60
            THEN <<"tomatoes", "peppers", "cucumbers">>
            ELSE IF current.temp < 15
            THEN <<"lettuce", "spinach", "kale">>
            ELSE <<>>
        risks ==
            (IF temp_analysis = "stress"
             THEN <<"heat_stress_on_crops">> ELSE <<>>)
            \o (IF precip_analysis = "drought_risk"
                THEN <<"water_shortage">> ELSE <<>>)
            \o (IF precip_analysis = "flood_risk"
                THEN <<"crop_damage">> ELSE <<>>)
    IN  [temperature_analysis         |-> temp_analysis,
         precipitation_analysis       |-> precip_analysis,
         total_precipitation_forecast |-> total_precip,
         crop_recommendations         |-> crop_recommendations,
         risks                        |-> risks,
         irrigation_needed            |-> precip_analysis = "drought_risk",
         harvest_timing               |->
             IF precip_analysis = "flood_risk" THEN "delay" ELSE "proceed"]

analyze_logistics_impact(weather_data) ==
    LET current == weather_data.current
        road_conditions ==
            IF Wet(current.condition) THEN "poor"
            ELSE IF current.temp < 0 THEN "hazardous"
            ELSE "good"
        delay_risk ==
            IF road_conditions = "poor" THEN "medium"
            ELSE IF road_conditions = "hazardous" THEN "high"
            ELSE "low"
        route_recommendations ==
            (IF current.wind_speed > 20
             THEN <<"avoid_high_bridges">> ELSE <<>>)
            \o (IF current.condition = "stormy"
                THEN <<"use_alternative_routes">> ELSE <<>>)
    IN  [road_conditions       |-> road_conditions,
         delay_risk            |-> delay_risk,
         route_recommendations |-> route_recommendations,
         fuel_efficiency       |->
             IF current.temp < 0 \/ current.temp > 30
             THEN "reduced" ELSE "normal",
         delivery_adjustments  |->
             IF delay_risk = "high" THEN "delay" ELSE "proceed",
         safety_alerts         |-> Len(route_recommendations) > 0]

generate_business_recommendations(business_type, impact_analysis) ==
    LET retail ==
            (IF Get(impact_analysis, "sales_forecast", "None") = "high"
             THEN <<"Increase inventory of weather-appropriate products",
                    "Extend store hours to capitalize on good weather">>
             ELSE IF Get(impact_analysis, "sales_forecast", "None") = "low"
             THEN <<"Focus on online sales and delivery",
                    "Offer weather-related promotions">>
             ELSE <<>>)
            \o (IF Get(impact_analysis, "product_recommendations", <<>>)
                      # <<>>
                THEN <<"Promote: "
                       \o Join(FirstThree(
                              impact_analysis.product_recommendations),
                              ", ")>>
                ELSE <<>>)
        agriculture ==
            (IF Get(impact_analysis, "irrigation_needed", FALSE)
             THEN <<"Schedule irrigation systems">> ELSE <<>>)
            \o (IF Get(impact_analysis, "harvest_timing", "None") = "delay"
                THEN <<"Delay harvest until weather improves">> ELSE <<>>)
            \o (IF Get(impact_analysis, "risks", <<>>) # <<>>
                THEN <<"Monitor for: "
                       \o Join(impact_analysis.risks, ", ")>>
                ELSE <<>>)
        logistics ==
            (IF Get(impact_analysis, "delay_risk", "None") = "high"
             THEN <<"Communicate delays to customers",
                    "Consider alternative transportation methods">>
             ELSE <<>>)
            \o (IF Get(impact_analysis, "safety_alerts", FALSE)
                THEN <<"Update driver safety protocols">> ELSE <<>>)
        recommendations ==
            IF business_type = "retail" THEN retail
            ELSE IF business_type = "agriculture" THEN agriculture
            ELSE IF business_type = "logistics" THEN logistics
            ELSE <<>>
    IN  IF recommendations = <<>>
        THEN <<"Weather conditions are favorable for normal operations">>
        ELSE recommendations

\* sum(1 for day in forecast if day["precipitation"] > 10)
high_precip_days(forecast) ==
    Cardinality({i \in DOMAIN forecast : forecast[i].precipitation > 10})

assess_risks(business_type, weather_data) ==
    LET current == weather_data.current
        temp ==
            IF current.temp > 35
            THEN <<<<"heat_stress", "implement_cooling_systems">>>>
            ELSE IF current.temp < 0
            THEN <<<<"freezing_conditions", "prepare_for_cold_weather">>>>
            ELSE <<>>
        rain ==
            IF high_precip_days(weather_data.forecast) > 3
            THEN <<<<"extended_rainfall", "prepare_flood_protection">>>>
            ELSE <<>>
        wind ==
            IF current.wind_speed > 25
            THEN <<<<"high_winds", "secure_outdoor_equipment">>>>
            ELSE <<>>
        found == temp \o rain \o wind
    IN  [overall_risk |->
             IF Len(found) >= 3 THEN "high"
             ELSE IF Len(found) >= 1 THEN "medium"
             ELSE "low",
         specific_risks        |-> [i \in DOMAIN found |-> found[i][1]],
         mitigation_strategies |-> [i \in DOMAIN found |-> found[i][2]]]

\* the body of the handler of POST /analyze
analyze_weather_business_impact_response(req) ==
    LET weather_data == get_weather_data(req.location)
        impact_analysis ==
            IF req.business_type = "retail"
            THEN analyze_retail_impact(weather_data)
            ELSE IF req.business_type = "agriculture"
            THEN analyze_agriculture_impact(weather_data)
            ELSE IF req.business_type = "logistics"
            THEN analyze_logistics_impact(weather_data)
            ELSE analyze_retail_impact(weather_data)
        sales == Get(impact_analysis, "sales_forecast", "None")
    IN  [status_code |-> 200,
         body |->
           [location        |-> req.location,
            business_type   |-> req.business_type,
            current_weather |-> weather_data.current,
            business_impact |-> impact_analysis,
            recommendations |->
                generate_business_recommendations(req.business_type,
                                                  impact_analysis),
            risk_assessment   |->
                assess_risks(req.business_type, weather_data),
            forecast_analysis |->
                [forecast_days       |-> req.forecast_days,
                 temperature_trend   |-> "stable",
                 precipitation_trend |-> "stable",
                 business_outlook    |->
                     IF sales = "high" THEN "positive"
                     ELSE IF sales = "low" THEN "negative"
                     ELSE "stable"]]]

\* seasonal_data of get_seasonal_analysis
SeasonalData ==
    [spring |-> [avg_temp |-> 15, avg_precip |-> 20,
                 business_impact |-> "moderate"],
     summer |-> [avg_temp |-> 25, avg_precip |-> 10,
                 business_impact |-> "high"],
     fall   |-> [avg_temp |-> 15, avg_precip |-> 25,
                 business_impact |-> "moderate"],
     winter |-> [avg_temp |-> 5, avg_precip |-> 30,
                 business_impact |-> "low"]]

get_seasonal_analysis_response(location, business_type, season) ==
    [status_code |-> 200,
     body |->
       [location      |-> location,
        business_type |-> business_type,
        season        |-> season,
        seasonal_data |->
            IF season \in DOMAIN SeasonalData THEN SeasonalData[season]
            ELSE SeasonalData["spring"],
        recommendations |->
            << "Prepare for " \o season \o " weather patterns",
               "Adjust inventory based on seasonal demand",
               "Update marketing strategies for seasonal trends" >>]]

Alert(type, severity, message) ==
    [type |-> type, severity |-> severity, message |-> message]

get_weather_alerts_response(location) ==
    LET current == get_weather_data(location).current
        alerts ==
            (IF current.temp > 35
             THEN <<Alert("heat_warning", "high",
                          "Extreme heat conditions")>>
             ELSE IF current.temp < 0
             THEN <<Alert("freeze_warning", "medium",
                          "Freezing conditions")>>
             ELSE <<>>)
            \o (IF current.condition = "stormy"
                THEN <<Alert("storm_warning", "high",
                             "Severe weather conditions")>>
                ELSE <<>>)
            \o (IF current.wind_speed > 25
                THEN <<Alert("wind_warning", "medium",
                             "High wind conditions")>>
                ELSE <<>>)
    IN  [status_code |-> 200,
         body |-> [location |-> location, alerts |-> alerts,
                   alert_count |-> Len(alerts), timestamp |-> now]]

----------------------------------------------------------------------------
(* Sentiment analysis (src/apis/sentiment_analysis_api.py)                 *)
(*                                                                         *)
(* A text is a sequence of words joined by single spaces.  What TextBlob   *)
(* computes for a text (polarity and subjectivity in hundredths, the noun  *)
(* phrases, the tagged words) is an input of the request: blob.  No word   *)
(* of the vocabulary is part of the two-word keyword "looking forward".    *)

SentimentVocabulary == {"Happy", "excited", "sad.", "unhappy", "ok"}

\* word.lower()
sentiment_lower(word) == IF word = "Happy" THEN "happy" ELSE word

\* len(word)
SentimentWordLen(word) ==
    CASE word = "ok"                                   -> 2
      [] word = "sad"                                  -> 3
      [] word = "sad."                                 -> 4
      [] word \in {"Happy", "happy"}                   -> 5
      [] word \in {"excited", "unhappy"}               -> 7

\* the number of "." in a word
DotCount(word) == IF word = "sad." THEN 1 ELSE 0

\* the letters of a lower-cased word: what lies between its two \b
Letters(word) == IF word = "sad." THEN "sad" ELSE word

\* len(re.findall(r'\b' + keyword + r'\b', text_lower))
KeywordMatches(keyword, text_lower) ==
    Cardinality({i \in DOMAIN text_lower :
                    Letters(text_lower[i]) = keyword})

\* for keyword in keywords: score += matches, over the keywords from i on
RECURSIVE EmotionScoreFrom(_, _, _)
EmotionScoreFrom(keywords, text_lower, i) ==
    IF i > Len(keywords) THEN 0
    ELSE KeywordMatches(keywords[i], text_lower)
         + EmotionScoreFrom(keywords, text_lower, i + 1)

EmotionScore(emotion, text) ==
    EmotionScoreFrom(EMOTION_KEYWORDS[emotion],
                     [i \in DOMAIN text |-> sentiment_lower(text[i])], 1)

\* extract_emotions without the cap at 1.0
extract_emotions_uncapped(text) ==
    [emotion \in {e \in DOMAIN EMOTION_KEYWORDS : EmotionScore(e, text) > 0}
        |-> EmotionScore(emotion, text)]

\* emotions[emotion] = min(1.0, score / 3.0) if score > 0, in thirds
extract_emotions(text) ==
    [emotion \in {e \in DOMAIN EMOTION_KEYWORDS : EmotionScore(e, text) > 0}
        |-> Min(3, EmotionScore(emotion, text))]

Abs(x) == IF x < 0 THEN 0 - x ELSE x

\* polarity and subjectivity in hundredths, confidence in ten-thousandths
analyze_sentiment(blob) ==
    [polarity        |-> blob.polarity,
     subjectivity    |-> blob.subjectivity,
     sentiment_label |->
         IF blob.polarity > 10 THEN "positive"
         ELSE IF blob.polarity < 0 - 10 THEN "negative"
         ELSE "neutral",
     confidence      |->
         Min(10000, Abs(blob.polarity) * (100 - blob.subjectivity)
                    + blob.subjectivity * 50)]

\* len(phrase) of a noun phrase given as its words
RECURSIVE PhraseLen(_)
PhraseLen(words) ==
    IF words = <<>> THEN 0
    ELSE IF Len(words) = 1 THEN SentimentWordLen(words[1])
    ELSE SentimentWordLen(words[1]) + 1 + PhraseLen(Tail(words))

\* tag.startswith('NN'), ('JJ'), ('VB')
TagClass(tag) ==
    CASE tag \in {"NN", "NNS", "NNP"}  -> "NN"
      [] tag \in {"JJ", "JJR"}         -> "JJ"
      [] tag \in {"VB", "VBD", "VBZ"}  -> "VB"
      [] OTHER                         -> "other"

\* importance in tenths
TagImportance(tag) ==
    CASE TagClass(tag) = "NN" -> 12
      [] TagClass(tag) = "JJ" -> 10
      [] TagClass(tag) = "VB" -> 8

\* the keywords list before the duplicates are removed; each entry with
\* the key kw["text"].lower() it is filed under
RECURSIVE NounPhraseKeywords(_, _)
NounPhraseKeywords(noun_phrases, i) ==
    IF i > Len(noun_phrases) THEN <<>>
    ELSE (IF PhraseLen(noun_phrases[i]) > 2
          THEN << [key |-> Join(noun_phrases[i], " "),
                   kw  |-> [text |-> Join(noun_phrases[i], " "),
                            type |-> "noun_phrase",
                            importance |-> Len(noun_phrases[i]) * 5]] >>
          ELSE <<>>)
         \o NounPhraseKeywords(noun_phrases, i + 1)

RECURSIVE TagKeywords(_, _)
TagKeywords(tags, i) ==
    IF i > Len(tags) THEN <<>>
    ELSE (IF /\ TagClass(tags[i][2]) # "other"
             /\ SentimentWordLen(tags[i][1]) > 2
          THEN << [key |-> sentiment_lower(tags[i][1]),
                   kw  |-> [text |-> tags[i][1],
                            type |-> tags[i][2],
                            importance |-> TagImportance(tags[i][2])]] >>
          ELSE <<>>)
         \o TagKeywords(tags, i + 1)

\* unique_keywords: the first entry of a key keeps its place, a later one
\* of strictly higher importance takes its value
RECURSIVE UniqueKeywords(_, _, _)
UniqueKeywords(keywords, i, unique) ==
    IF i > Len(keywords) THEN unique
    ELSE LET same == {j \in DOMAIN unique : unique[j].key = keywords[i].key}
         IN  IF same = {}
             THEN UniqueKeywords(keywords, i + 1,
                                 Append(unique, keywords[i]))
             ELSE UniqueKeywords(keywords, i + 1,
                    [j \in DOMAIN unique |->
                        IF j \in same /\ keywords[i].kw.importance
                                          > unique[j].kw.importance
                        THEN keywords[i] ELSE unique[j]])

\* sorted(..., key=importance, reverse=True): stable
RECURSIVE SortedByImportance(_)
SortedByImportance(seq) ==
    IF seq = <<>> THEN <<>>
    ELSE LET best == CHOOSE j \in DOMAIN seq :
                        /\ \A k \in DOMAIN seq :
                               seq[k].importance <= seq[j].importance
                        /\ \A k \in 1..(j - 1) :
                               seq[k].importance < seq[j].importance
         IN  <<seq[best]>>
             \o SortedByImportance(SubSeq(seq, 1, best - 1)
                                   \o SubSeq(seq, best + 1, Len(seq)))

extract_keywords(blob) ==
    LET keywords == NounPhraseKeywords(blob.noun_phrases, 1)
                    \o TagKeywords(blob.tags, 1)
        unique   == UniqueKeywords(keywords, 1, <<>>)
        sorted   == SortedByImportance([j \in DOMAIN unique |-> unique[j].kw])
    IN  SubSeq(sorted, 1, Min(10, Len(sorted)))

\* sum(len(word) for word in words), from word i on
RECURSIVE SentimentCharsFrom(_, _)
SentimentCharsFrom(text, i) ==
    IF i > Len(text) THEN 0
    ELSE SentimentWordLen(text[i]) + SentimentCharsFrom(text, i + 1)

\* len(text.split('.')): one more than the number of "."
sentence_count(text) ==
    1 + Cardinality({i \in DOMAIN text : DotCount(text[i]) = 1})

analyze_text_complexity(text) ==
    LET words          == Len(text)
        sentences      == sentence_count(text)
        long_words     == Cardinality({i \in DOMAIN text :
                                          SentimentWordLen(text[i]) > 6})
        long_word_ratio == IF words # 0 THEN Divide(long_words, words)
                           ELSE Divide(0, 1)
    IN  [word_count          |-> words,
         sentence_count      |-> sentences,
         avg_sentence_length |->
             IF sentences # 0 THEN Divide(words, sentences)
             ELSE Divide(0, 1),
         avg_word_length     |->
             IF words # 0 THEN Divide(SentimentCharsFrom(text, 1), words)
             ELSE Divide(0, 1),
         long_word_ratio     |-> long_word_ratio,
         complexity_level    |->
             IF 10 * long_word_ratio.num > 2 * long_word_ratio.den
             THEN "high"
             ELSE IF 10 * long_word_ratio.num > long_word_ratio.den
             THEN "medium"
             ELSE "low"]

\* the body of the handler of POST /analyze of the sentiment router
analyze_sentiment_endpoint_response(req) ==
    IF req.blob.raises
    THEN [status_code |-> 500, detail |-> "Sentiment analysis failed"]
    ELSE LET sentiment_result == analyze_sentiment(req.blob)
         IN  [status_code |-> 200,
              body |->
                [text            |-> req.text,
                 sentiment_score |-> sentiment_result.polarity,
                 sentiment_label |-> sentiment_result.sentiment_label,
                 confidence      |-> sentiment_result.confidence,
                 emotions        |->
                     IF req.include_emotions
                     THEN extract_emotions(req.text)
                     ELSE EmptyDict,
                 keywords        |->
                     IF req.include_keywords
                     THEN extract_keywords(req.blob)
                     ELSE <<>>,
                 analysis_details |->
                    [subjectivity |-> sentiment_result.subjectivity,
                     complexity   |-> analyze_text_complexity(req.text),
                     language     |-> req.language,
                     analysis_timestamp |-> now]]]

\* the results of the loop of batch_analyze_sentiment, from item i on
RECURSIVE BatchSentimentResults(_, _)
BatchSentimentResults(req, i) ==
    IF i > Len(req.items) THEN <<>>
    ELSE LET one == analyze_sentiment_endpoint_response(
                        [text     |-> req.items[i].text,
                         blob     |-> req.items[i].blob,
                         language |-> req.language,
                         include_emotions |-> req.include_emotions,
                         include_keywords |-> req.include_keywords])
         IN  << IF one.status_code = 200 THEN one.body
                ELSE [text |-> req.items[i].text, error |-> one.detail,
                      sentiment_score |-> 0,
                      sentiment_label |-> "neutral"] >>
             \o BatchSentimentResults(req, i + 1)

\* sum(sentiment_scores), from result i on
RECURSIVE SentimentScoresFrom(_, _)
SentimentScoresFrom(results, i) ==
    IF i > Len(results) THEN 0
    ELSE results[i].sentiment_score + SentimentScoresFrom(results, i + 1)

\* the count of a label over the results that carry no error
LabelCount_without_failed(results, label) ==
    Cardinality({i \in DOMAIN results :
                    /\ "error" \notin DOMAIN results[i]
                    /\ Get(results[i], "sentiment_label", "None") = label})

LabelCount(results, label) ==
    Cardinality({i \in DOMAIN results :
                    Get(results[i], "sentiment_label", "None") = label})

\* the standard deviation of the scores (sentiment_std) is not represented
batch_analyze_sentiment_response(req) ==
    LET results == BatchSentimentResults(req, 1)
    IN  [status_code |-> 200,
         body |->
           [results         |-> results,
            total_processed |-> Len(req.items),
            aggregate_stats |->
              [avg_sentiment |->
                   IF results # <<>>
                   THEN Divide(SentimentScoresFrom(results, 1), Len(results))
                   ELSE Divide(0, 1),
               positive_count |-> LabelCount(results, "positive"),
               negative_count |-> LabelCount(results, "negative"),
               neutral_count  |-> LabelCount(results, "neutral")]]]

----------------------------------------------------------------------------
(* Email validation (src/apis/email_validation_api.py)                     *)
(*                                                                         *)
(* An address is its local part and its domain; the request model has      *)
(* checked that it has one "@".  What the resolver answers for the domain  *)
(* is an input of the request: dns.  Scores are in hundredths.             *)

FormatWeight        == 30
DomainWeight        == 25
MxWeight            == 25
NotDisposableWeight == 10
NotRoleWeight       == 10
LowConfidenceBound  == 50

\* local_part.lower(), domain.lower()
email_lower(part) ==
    CASE part = "Admin"          -> "admin"
      [] part = "Mailinator.com" -> "mailinator.com"
      [] OTHER                   -> part

\* re.match(r'^[a-zA-Z0-9._%+-]+@[a-zA-Z0-9.-]+\.[a-zA-Z]{2,}$', email)
FormatMatches(email) ==
    /\ email.local_part \in {"alice", "Admin"}
    /\ email.domain \in {"example.com", "mailinator.com", "Mailinator.com"}

validate_email_format(email) ==
    [is_valid_format |-> FormatMatches(email),
     issues     |-> IF FormatMatches(email) THEN <<>>
                    ELSE <<"invalid_format">>,
     local_part |-> email.local_part,
     domain     |-> email.domain]

\* dns.resolver.resolve raises an exception the function does not catch
check_domain_exists_raises(dns) == dns.mx = "timeout"

\* check_domain_exists with its two answers exchanged
check_domain_exists_exchanged(dns) ==
    [domain_exists    |-> dns.mx = "records",
     mx_record_exists |-> dns.resolves]

check_domain_exists(dns) ==
    [domain_exists    |-> dns.resolves,
     mx_record_exists |-> dns.mx = "records"]

check_disposable_email(domain) == email_lower(domain) \in DISPOSABLE_DOMAINS

check_role_account(local_part) == email_lower(local_part) \in ROLE_ACCOUNTS

\* calculate_confidence_score adding the last two weights when the address
\* IS disposable, IS a role account
calculate_confidence_score_unnegated(validation_results) ==
    Min(ScoreOne,
        (IF Get(validation_results, "format_valid", FALSE)
         THEN FormatWeight ELSE 0)
        + (IF Get(validation_results, "domain_exists", FALSE)
           THEN DomainWeight ELSE 0)
        + (IF Get(validation_results, "mx_record_exists", FALSE)
           THEN MxWeight ELSE 0)
        + (IF Get(validation_results, "is_disposable", FALSE)
           THEN NotDisposableWeight ELSE 0)
        + (IF Get(validation_results, "is_role_account", FALSE)
           THEN NotRoleWeight ELSE 0))

calculate_confidence_score(validation_results) ==
    Min(ScoreOne,
        (IF Get(validation_results, "format_valid", FALSE)
         THEN FormatWeight ELSE 0)
        + (IF Get(validation_results, "domain_exists", FALSE)
           THEN DomainWeight ELSE 0)
        + (IF Get(validation_results, "mx_record_exists", FALSE)
           THEN MxWeight ELSE 0)
        + (IF ~ Get(validation_results, "is_disposable", FALSE)
           THEN NotDisposableWeight ELSE 0)
        + (IF ~ Get(validation_results, "is_role_account", FALSE)
           THEN NotRoleWeight ELSE 0))

\* generate_recommendations of the email module
email_generate_recommendations(validation_results) ==
    LET recommendations ==
            (IF Get(validation_results, "is_disposable", FALSE)
             THEN <<"This appears to be a disposable email address. Consider requiring a permanent email.">>
             ELSE <<>>)
            \o (IF Get(validation_results, "is_role_account", FALSE)
                THEN <<"This is a role account. Consider requiring a personal email address.">>
                ELSE <<>>)
            \o (IF ~ Get(validation_results, "domain_exists", FALSE)
                THEN <<"The domain does not exist. This email is likely invalid.">>
                ELSE <<>>)
            \o (IF ~ Get(validation_results, "mx_record_exists", FALSE)
                THEN <<"The domain has no mail servers. This email cannot receive messages.">>
                ELSE <<>>)
            \o (IF Get(validation_results, "confidence_score", 0)
                      < LowConfidenceBound
                THEN <<"Low confidence score. Manual verification recommended.">>
                ELSE <<>>)
    IN  IF recommendations = <<>>
        THEN <<"Email appears valid and deliverable.">>
        ELSE recommendations

\* the body of the handler of POST /validate
validate_email_response(req) ==
    IF check_domain_exists_raises(req.dns)
    THEN [status_code |-> 500, detail |-> "Email validation failed"]
    ELSE
    LET format_validation == validate_email_format(req.email)
        domain_check      == check_domain_exists(req.dns)
        is_disposable ==
            IF req.check_disposable
            THEN check_disposable_email(format_validation.domain)
            ELSE FALSE
        is_role_account ==
            IF req.check_role
            THEN check_role_account(format_validation.local_part)
            ELSE FALSE
        validation_results ==
            [format_valid      |-> format_validation.is_valid_format,
             domain_exists     |-> domain_check.domain_exists,
             mx_record_exists  |-> domain_check.mx_record_exists,
             is_disposable     |-> is_disposable,
             is_role_account   |-> is_role_account,
             validation_issues |-> format_validation.issues]
    IN  [status_code |-> 200,
         body |->
           [email            |-> req.email,
            is_valid         |-> /\ format_validation.is_valid_format
                                 /\ domain_check.domain_exists,
            is_deliverable   |-> /\ format_validation.is_valid_format
                                 /\ domain_check.domain_exists
                                 /\ domain_check.mx_record_exists
                                 /\ ~ is_disposable,
            is_disposable    |-> is_disposable,
            is_role_account  |-> is_role_account,
            domain_exists    |-> domain_check.domain_exists,
            mx_record_exists |-> domain_check.mx_record_exists,
            confidence_score |->
                calculate_confidence_score(validation_results),
            validation_details |-> validation_results,
            recommendations  |->
                email_generate_recommendations(validation_results)]]

\* the results of the loop of batch_validate_emails, from item i on
RECURSIVE BatchEmailResults(_, _)
BatchEmailResults(req, i) ==
    IF i > Len(req.items) THEN <<>>
    ELSE LET one == validate_email_response(
                        [email |-> req.items[i].email,
                         dns   |-> req.items[i].dns,
                         check_deliverability |-> req.check_deliverability,
                         check_disposable     |-> req.check_disposable,
                         check_role           |-> req.check_role])
         IN  << IF one.status_code = 200 THEN one.body
                ELSE [email |-> req.items[i].email, error |-> one.detail,
                      is_valid |-> FALSE] >>
             \o BatchEmailResults(req, i + 1)

HasNoError(result) == "error" \notin DOMAIN result

\* batch_validate_emails leaving out the emails whose validation failed
batch_validate_emails_response_skipping(req) ==
    LET results == SelectSeq(BatchEmailResults(req, 1), HasNoError)
    IN  [status_code |-> 200,
         body |->
           [results         |-> results,
            total_processed |-> Len(req.items),
            valid_count     |->
                Cardinality({i \in DOMAIN results :
                                Get(results[i], "is_valid", FALSE)}),
            deliverable_count |->
                Cardinality({i \in DOMAIN results :
                                Get(results[i], "is_deliverable", FALSE)})]]

batch_validate_emails_response(req) ==
    LET results == BatchEmailResults(req, 1)
    IN  [status_code |-> 200,
         body |->
           [results         |-> results,
            total_processed |-> Len(req.items),
            valid_count     |->
                Cardinality({i \in DOMAIN results :
                                Get(results[i], "is_valid", FALSE)}),
            deliverable_count |->
                Cardinality({i \in DOMAIN results :
                                Get(results[i], "is_deliverable", FALSE)})]]

get_domain_info_response(domain, dns) ==
    IF check_domain_exists_raises(dns)
    THEN [status_code |-> 500, detail |-> "Domain info failed"]
    ELSE [status_code |-> 200,
          body |->
            [domain         |-> domain,
             exists         |-> check_domain_exists(dns).domain_exists,
             has_mx_records |-> check_domain_exists(dns).mx_record_exists,
             is_disposable  |-> check_disposable_email(domain),
             deliverability_score |->
                 IF /\ check_domain_exists(dns).mx_record_exists
                    /\ ~ check_disposable_email(domain)
                 THEN ScoreOne ELSE 0,
             last_checked   |-> now]]

----------------------------------------------------------------------------
(* The handlers *)

ContentTypes == {"general", "social_media"}
Strictness   == {"low", "medium", "high", "extreme"}

NoRequest  == [endpoint |-> "none"]
NoResponse == [status_code |-> 0]
NoEarlier  == [request |-> NoRequest, response |-> NoResponse,
               interleaved |-> FALSE]

Init ==
    /\ HATE_SPEECH_PATTERNS = HateSpeechPatternList
    /\ SPAM_PATTERNS = SpamPatternList
    /\ PROFANITY_PATTERNS = ProfanityPatternList
    /\ MOCK_PRICES = MockPriceTable
    /\ MOCK_WEATHER_DATA = MockWeatherTable
    /\ EMOTION_KEYWORDS = EmotionKeywordTable
    /\ DISPOSABLE_DOMAINS = DisposableDomainSet
    /\ ROLE_ACCOUNTS = RoleAccountSet
    /\ now = 0
    /\ request = NoRequest
    /\ response = NoResponse
    /\ earlier = NoEarlier

\* try: result = analyze_content(...)  except Exception: HTTPException(500)
moderate_content_response(text, content_type, strictness) ==
    IF analyze_content_raises(text)
    THEN [status_code |-> 500, detail |-> "Moderation failed"]
    ELSE [status_code |-> 200,
          body |-> analyze_content(text, content_type, strictness)]

\* moderate_content consuming the hate-speech list while it scans it
moderate_content_popping(text, content_type, strictness) ==
    /\ request = NoRequest
    /\ request' = [endpoint |-> "moderate", text |-> text,
                   content_type |-> content_type, strictness |-> strictness]
    /\ response' = moderate_content_response(text, content_type, strictness)
    /\ HATE_SPEECH_PATTERNS' = <<>>
    /\ UNCHANGED <<SPAM_PATTERNS, PROFANITY_PATTERNS, other_config, now,
                    earlier>>

\* POST /moderate
moderate_content(text, content_type, strictness) ==
    /\ request = NoRequest
    /\ request' = [endpoint |-> "moderate", text |-> text,
                   content_type |-> content_type, strictness |-> strictness]
    /\ response' = moderate_content_response(text, content_type, strictness)
    /\ UNCHANGED <<config, now, earlier>>

\* GET /health
health_check ==
    /\ request = NoRequest
    /\ request' = [endpoint |-> "health"]
    /\ response' = [status_code |-> 200,
                    body |-> [status |-> "healthy",
                              service |-> "content_moderation"]]
    /\ UNCHANGED <<config, now, earlier>>

\* The serving layer sends the response; the request-scoped data is dropped.
send_response ==
    /\ request # NoRequest
    /\ request' = NoRequest
    /\ response' = NoResponse
    /\ UNCHANGED <<config, now, earlier>>

Texts == TextsUpTo(MaxLen)

\* a request arrives only when the previous one has been answered
Idle == request = NoRequest

Next ==
    \/ /\ Idle
       /\ \E text \in Texts, content_type \in ContentTypes,
             strictness \in Strictness :
             moderate_content(text, content_type, strictness)
    \/ health_check
    \/ send_response

Spec == Init /\ [][Next]_vars

----------------------------------------------------------------------------
(* The same handlers with a history of what was served: the first          *)
(* moderation request with one of the pinned texts is kept, with its       *)
(* response, and it is noted whether another request was served since.     *)

PinnedTexts == {<<>>, <<"NAZI">>, <<"fucker">>}
DetTexts    == TextsUpTo(MaxDetLen)

send_and_log_response ==
    /\ request # NoRequest
    /\ request' = NoRequest
    /\ response' = NoResponse
    /\ earlier' =
         IF earlier = NoEarlier
         THEN IF request.endpoint = "moderate" /\ request.text \in PinnedTexts
              THEN [request |-> request, response |-> response,
                    interleaved |-> FALSE]
              ELSE earlier
         ELSE IF request # earlier.request
              THEN [earlier EXCEPT !.interleaved = TRUE]
              ELSE earlier
    /\ UNCHANGED <<config, now>>

NextDet ==
    \/ /\ Idle
       /\ \E text \in DetTexts, content_type \in ContentTypes,
             strictness \in Strictness :
             moderate_content(text, content_type, strictness)
    \/ health_check
    \/ send_and_log_response

SpecDet == Init /\ [][NextDet]_vars

----------------------------------------------------------------------------
(* The cryptocurrency endpoints, and the clock that datetime.now() reads   *)

MaxAssets == 2
MaxNow    == 2

Symbols == {"BTC", "btc", "ETH", "xyz"}

\* quantities -1, 1.5 and 10; purchase prices 0, 3000 and 40000
Assets == [symbol : Symbols, quantity : {0 - 2, 3, 20},
           purchase_price : {0, 30, 400}]

AssetLists == ListsUpTo(Assets, MaxAssets)

\* time passes between requests
Tick ==
    /\ Idle
    /\ now < MaxNow
    /\ now' = now + 1
    /\ UNCHANGED <<config, request, response, earlier>>

\* POST /analyze-portfolio
analyze_portfolio(assets) ==
    /\ request = NoRequest
    /\ request' = [endpoint |-> "analyze-portfolio", assets |-> assets,
                   base_currency |-> "USD"]
    /\ response' = analyze_portfolio_response(assets)
    /\ UNCHANGED <<config, now, earlier>>

\* GET /market-overview
get_market_overview ==
    /\ request = NoRequest
    /\ request' = [endpoint |-> "market-overview"]
    /\ response' = [status_code |-> 200,
                    body |-> [market_sentiment |-> "neutral",
                              market_fear_greed_index |-> 65,
                              top_gainers |-> <<"SOL", "AVAX", "MATIC">>,
                              top_losers  |-> <<"LINK", "UNI", "DOT">>,
                              last_updated |-> now]]
    /\ UNCHANGED <<config, now, earlier>>

\* GET /price/{symbol}
get_crypto_price(symbol) ==
    /\ request = NoRequest
    /\ request' = [endpoint |-> "price", symbol |-> symbol]
    /\ response' = get_crypto_price_response(symbol)
    /\ UNCHANGED <<config, now, earlier>>

\* GET /health of the crypto router
crypto_health_check ==
    /\ request = NoRequest
    /\ request' = [endpoint |-> "crypto-health"]
    /\ response' = [status_code |-> 200,
                    body |-> [status |-> "healthy",
                              service |-> "crypto_analytics"]]
    /\ UNCHANGED <<config, now, earlier>>

NextCrypto ==
    \/ /\ Idle
       /\ \E assets \in AssetLists : analyze_portfolio(assets)
    \/ /\ Idle
       /\ \E symbol \in Symbols : get_crypto_price(symbol)
    \/ get_market_overview
    \/ crypto_health_check
    \/ Tick
    \/ send_response

SpecCrypto == Init /\ [][NextCrypto]_vars

----------------------------------------------------------------------------
(* The weather endpoints *)

Locations     == {"New York", "Los Angeles", "Chicago"}
BusinessTypes == {"retail", "agriculture", "logistics", "tourism"}
AnalysisTypes == {"general", "seasonal"}
ForecastDays  == {1, 7}
Seasons       == {"spring", "summer", "fall", "winter", "monsoon"}

\* analyze_weather_business_impact with a lookup that files the default
\* under the location asked for: MOCK_WEATHER_DATA.setdefault(location, ...)
analyze_weather_business_impact_caching(req) ==
    /\ request = NoRequest
    /\ request' = [endpoint |-> "weather-analyze",
                   location |-> req.location,
                   business_type |-> req.business_type,
                   analysis_type |-> req.analysis_type,
                   forecast_days |-> req.forecast_days]
    /\ response' = analyze_weather_business_impact_response(req)
    /\ MOCK_WEATHER_DATA' =
           IF req.location \in DOMAIN MOCK_WEATHER_DATA
           THEN MOCK_WEATHER_DATA
           ELSE (req.location :> MOCK_WEATHER_DATA["New York"])
                @@ MOCK_WEATHER_DATA
    /\ UNCHANGED <<moderation_config, MOCK_PRICES, EMOTION_KEYWORDS,
                    DISPOSABLE_DOMAINS, ROLE_ACCOUNTS, now, earlier>>

\* POST /analyze of the weather router
analyze_weather_business_impact(req) ==
    /\ request = NoRequest
    /\ request' = [endpoint |-> "weather-analyze",
                   location |-> req.location,
                   business_type |-> req.business_type,
                   analysis_type |-> req.analysis_type,
                   forecast_days |-> req.forecast_days]
    /\ response' = analyze_weather_business_impact_response(req)
    /\ UNCHANGED <<config, now, earlier>>

\* GET /seasonal-analysis/{location}/{business_type}
get_seasonal_analysis(location, business_type, season) ==
    /\ request = NoRequest
    /\ request' = [endpoint |-> "seasonal-analysis", location |-> location,
                   business_type |-> business_type, season |-> season]
    /\ response' = get_seasonal_analysis_response(location, business_type,
                                                  season)
    /\ UNCHANGED <<config, now, earlier>>

\* GET /weather-alerts/{location}
get_weather_alerts(location) ==
    /\ request = NoRequest
    /\ request' = [endpoint |-> "weather-alerts", location |-> location]
    /\ response' = get_weather_alerts_response(location)
    /\ UNCHANGED <<config, now, earlier>>

\* GET /health of the weather router
weather_health_check ==
    /\ request = NoRequest
    /\ request' = [endpoint |-> "weather-health"]
    /\ response' = [status_code |-> 200,
                    body |-> [status |-> "healthy",
                              service |-> "weather_business_intelligence"]]
    /\ UNCHANGED <<config, now, earlier>>

NextWeather ==
    \/ /\ Idle
       /\ \E location \in Locations, business_type \in BusinessTypes,
             analysis_type \in AnalysisTypes, forecast_days \in ForecastDays :
             analyze_weather_business_impact(
                 [location |-> location, business_type |-> business_type,
                  analysis_type |-> analysis_type,
                  forecast_days |-> forecast_days])
    \/ /\ Idle
       /\ \E location \in Locations, business_type \in BusinessTypes,
             season \in Seasons :
             get_seasonal_analysis(location, business_type, season)
    \/ /\ Idle
       /\ \E location \in Locations : get_weather_alerts(location)
    \/ weather_health_check
    \/ Tick
    \/ send_response

SpecWeather == Init /\ [][NextWeather]_vars

----------------------------------------------------------------------------
(* The sentiment endpoints *)

MaxSentLen == 2
MaxBatch   == 2

SentimentTexts == ListsUpTo(SentimentVocabulary, MaxSentLen)
Languages      == {"en"}


\* TextBlob fails
BlobRaises == [raises |-> TRUE]

Blobs ==
    {BlobRaises}
    \cup [raises : {FALSE}, polarity : {0 - 50, 10, 60},
          subjectivity : {0, 50},
          noun_phrases : {<<>>, << <<"sad", "ok">>, <<"ok">> >>},
          tags : {<<>>,
                  << <<"Happy", "JJ">>, <<"happy", "NN">>, <<"ok", "UH">>,
                     <<"excited", "VBD">>, <<"sad", "NN">> >>}]

\* analyze_sentiment_endpoint emptying the keyword lists it has scanned
analyze_sentiment_endpoint_forgetting(req) ==
    /\ request = NoRequest
    /\ request' = [endpoint |-> "sentiment-analyze", text |-> req.text,
                   language |-> req.language,
                   include_emotions |-> req.include_emotions,
                   include_keywords |-> req.include_keywords,
                   blob |-> req.blob]
    /\ response' = analyze_sentiment_endpoint_response(req)
    /\ EMOTION_KEYWORDS' = [e \in DOMAIN EMOTION_KEYWORDS |-> <<>>]
    /\ UNCHANGED <<moderation_config, MOCK_PRICES, MOCK_WEATHER_DATA,
                    DISPOSABLE_DOMAINS, ROLE_ACCOUNTS, now, earlier>>

\* POST /analyze of the sentiment router
analyze_sentiment_endpoint(req) ==
    /\ request = NoRequest
    /\ request' = [endpoint |-> "sentiment-analyze", text |-> req.text,
                   language |-> req.language,
                   include_emotions |-> req.include_emotions,
                   include_keywords |-> req.include_keywords,
                   blob |-> req.blob]
    /\ response' = analyze_sentiment_endpoint_response(req)
    /\ UNCHANGED <<config, now, earlier>>

BatchSentimentItems ==
    {[text |-> <<"Happy">>,
      blob |-> [raises |-> FALSE, polarity |-> 60, subjectivity |-> 50,
                noun_phrases |-> <<>>, tags |-> <<>>]],
     [text |-> <<"sad.", "unhappy">>,
      blob |-> [raises |-> FALSE, polarity |-> 0 - 50, subjectivity |-> 0,
                noun_phrases |-> <<>>, tags |-> << <<"sad", "NN">> >>]],
     [text |-> <<"excited", "ok">>,
      blob |-> [raises |-> FALSE, polarity |-> 10, subjectivity |-> 50,
                noun_phrases |-> <<>>, tags |-> <<>>]],
     [text |-> <<"ok">>, blob |-> BlobRaises]}

BatchSentimentLists == ListsUpTo(BatchSentimentItems, MaxBatch)

\* POST /batch-analyze
batch_analyze_sentiment(req) ==
    /\ request = NoRequest
    /\ request' = [endpoint |-> "batch-analyze", items |-> req.items,
                   language |-> req.language,
                   include_emotions |-> req.include_emotions,
                   include_keywords |-> req.include_keywords]
    /\ response' = batch_analyze_sentiment_response(req)
    /\ UNCHANGED <<config, now, earlier>>

\* GET /emotions
get_available_emotions ==
    /\ request = NoRequest
    /\ request' = [endpoint |-> "emotions"]
    /\ response' = [status_code |-> 200,
                    body |-> [available_emotions |-> DOMAIN EMOTION_KEYWORDS,
                              emotion_keywords   |-> EMOTION_KEYWORDS]]
    /\ UNCHANGED <<config, now, earlier>>

\* GET /health of the sentiment router
sentiment_health_check ==
    /\ request = NoRequest
    /\ request' = [endpoint |-> "sentiment-health"]
    /\ response' = [status_code |-> 200,
                    body |-> [status |-> "healthy",
                              service |-> "sentiment_analysis"]]
    /\ UNCHANGED <<config, now, earlier>>

NextSentiment ==
    \/ /\ Idle
       /\ \E text \in SentimentTexts, language \in Languages,
             include_emotions \in BOOLEAN, include_keywords \in BOOLEAN,
             blob \in Blobs :
             analyze_sentiment_endpoint(
                 [text |-> text, language |-> language,
                  include_emotions |-> include_emotions,
                  include_keywords |-> include_keywords, blob |-> blob])
    \/ /\ Idle
       /\ \E items \in BatchSentimentLists, language \in Languages,
             include_emotions \in BOOLEAN, include_keywords \in BOOLEAN :
             batch_analyze_sentiment(
                 [items |-> items, language |-> language,
                  include_emotions |-> include_emotions,
                  include_keywords |-> include_keywords])
    \/ get_available_emotions
    \/ sentiment_health_check
    \/ Tick
    \/ send_response

SpecSentiment == Init /\ [][NextSentiment]_vars

(* The sentiment endpoints with a history: the first analysis request     *)
(* with one of the pinned texts is kept, with its response.                *)

PinnedSentimentTexts == {<<"Happy">>}
DetSentimentTexts    == ListsUpTo(SentimentVocabulary, MaxDetLen)

DetBlobs ==
    {BlobRaises,
     [raises |-> FALSE, polarity |-> 60, subjectivity |-> 50,
      noun_phrases |-> <<>>, tags |-> <<>>],
     [raises |-> FALSE, polarity |-> 10, subjectivity |-> 0,
      noun_phrases |-> << <<"sad", "ok">>, <<"ok">> >>,
      tags |-> << <<"Happy", "JJ">>, <<"happy", "NN">> >>]}

send_and_log_sentiment_response ==
    /\ request # NoRequest
    /\ request' = NoRequest
    /\ response' = NoResponse
    /\ earlier' =
         IF earlier = NoEarlier
         THEN IF /\ request.endpoint = "sentiment-analyze"
                 /\ request.text \in PinnedSentimentTexts
              THEN [request |-> request, response |-> response,
                    interleaved |-> FALSE]
              ELSE earlier
         ELSE IF request # earlier.request
              THEN [earlier EXCEPT !.interleaved = TRUE]
              ELSE earlier
    /\ UNCHANGED <<config, now>>

NextSentimentDet ==
    \/ /\ Idle
       /\ \E text \in DetSentimentTexts, language \in Languages,
             include_emotions \in BOOLEAN, include_keywords \in BOOLEAN,
             blob \in DetBlobs :
             analyze_sentiment_endpoint(
                 [text |-> text, language |-> language,
                  include_emotions |-> include_emotions,
                  include_keywords |-> include_keywords, blob |-> blob])
    \/ get_available_emotions
    \/ sentiment_health_check
    \/ Tick
    \/ send_and_log_sentiment_response

SpecSentimentDet == Init /\ [][NextSentimentDet]_vars

(* extract_emotions on its own, for texts long enough for a group to have  *)
(* more than three occurrences of its keywords.                            *)

MaxEmotionLen == 4

EmotionTexts == ListsUpTo(SentimentVocabulary, MaxEmotionLen)

InitEmotions ==
    /\ HATE_SPEECH_PATTERNS = HateSpeechPatternList
    /\ SPAM_PATTERNS = SpamPatternList
    /\ PROFANITY_PATTERNS = ProfanityPatternList
    /\ MOCK_PRICES = MockPriceTable
    /\ MOCK_WEATHER_DATA = MockWeatherTable
    /\ EMOTION_KEYWORDS = EmotionKeywordTable
    /\ DISPOSABLE_DOMAINS = DisposableDomainSet
    /\ ROLE_ACCOUNTS = RoleAccountSet
    /\ now = 0
    /\ request \in {[endpoint |-> "extract_emotions", text |-> text] :
                       text \in EmotionTexts}
    /\ response = NoResponse
    /\ earlier = NoEarlier

\* emotions = extract_emotions(text)
call_extract_emotions ==
    /\ request.endpoint = "extract_emotions"
    /\ response = NoResponse
    /\ response' = [status_code |-> 200,
                    emotions |-> extract_emotions(request.text)]
    /\ UNCHANGED <<config, now, request, earlier>>

NextEmotions == call_extract_emotions

SpecEmotions == InitEmotions /\ [][NextEmotions]_vars

----------------------------------------------------------------------------
(* The email endpoints *)

EmailDomains == {"example.com", "mailinator.com"}
PathDomains  == EmailDomains \cup {"Mailinator.com"}
Emails       == [local_part : {"alice", "Admin", "o'neil"},
                 domain : EmailDomains]
DnsAnswers   == [resolves : BOOLEAN, mx : {"records", "none", "timeout"}]

\* POST /validate
validate_email(req) ==
    /\ request = NoRequest
    /\ request' = [endpoint |-> "validate", email |-> req.email,
                   check_deliverability |-> req.check_deliverability,
                   check_disposable |-> req.check_disposable,
                   check_role |-> req.check_role, dns |-> req.dns]
    /\ response' = validate_email_response(req)
    /\ UNCHANGED <<config, now, earlier>>

BatchEmailItems ==
    {[email |-> [local_part |-> "alice", domain |-> "example.com"],
      dns   |-> [resolves |-> TRUE, mx |-> "records"]],
     [email |-> [local_part |-> "Admin", domain |-> "mailinator.com"],
      dns   |-> [resolves |-> TRUE, mx |-> "none"]],
     [email |-> [local_part |-> "o'neil", domain |-> "example.com"],
      dns   |-> [resolves |-> FALSE, mx |-> "timeout"]]}

BatchEmailLists == ListsUpTo(BatchEmailItems, MaxBatch)

\* POST /batch-validate
batch_validate_emails(req) ==
    /\ request = NoRequest
    /\ request' = [endpoint |-> "batch-validate", items |-> req.items,
                   check_deliverability |-> req.check_deliverability,
                   check_disposable |-> req.check_disposable,
                   check_role |-> req.check_role]
    /\ response' = batch_validate_emails_response(req)
    /\ UNCHANGED <<config, now, earlier>>

\* GET /domain-info/{domain}
get_domain_info(domain, dns) ==
    /\ request = NoRequest
    /\ request' = [endpoint |-> "domain-info", domain |-> domain,
                   dns |-> dns]
    /\ response' = get_domain_info_response(domain, dns)
    /\ UNCHANGED <<config, now, earlier>>

\* GET /health of the email router
email_health_check ==
    /\ request = NoRequest
    /\ request' = [endpoint |-> "email-health"]
    /\ response' = [status_code |-> 200,
                    body |-> [status |-> "healthy",
                              service |-> "email_validation"]]
    /\ UNCHANGED <<config, now, earlier>>

NextEmail ==
    \/ /\ Idle
       /\ \E email \in Emails, check_deliverability \in BOOLEAN,
             check_disposable \in BOOLEAN, check_role \in BOOLEAN,
             dns \in DnsAnswers :
             validate_email([email |-> email,
                             check_deliverability |-> check_deliverability,
                             check_disposable |-> check_disposable,
                             check_role |-> check_role, dns |-> dns])
    \/ /\ Idle
       /\ \E items \in BatchEmailLists, check_deliverability \in BOOLEAN,
             check_disposable \in BOOLEAN, check_role \in BOOLEAN :
             batch_validate_emails(
                 [items |-> items,
                  check_deliverability |-> check_deliverability,
                  check_disposable |-> check_disposable,
                  check_role |-> check_role])
    \/ /\ Idle
       /\ \E domain \in PathDomains, dns \in DnsAnswers :
             get_domain_info(domain, dns)
    \/ email_health_check
    \/ Tick
    \/ send_response

SpecEmail == Init /\ [][NextEmail]_vars

----------------------------------------------------------------------------
(* All the routers that main.py includes, with a history: the first        *)
(* weather analysis for retail at a location that is not in the table is   *)
(* kept, with its response.                                                *)

BatchTexts      == ListsUpTo(PinnedTexts, MaxBatch)
SuiteAssetLists == ListsUpTo(Assets, 1)

\* POST /batch-moderate
batch_moderate_content(texts, content_type, strictness) ==
    /\ request = NoRequest
    /\ request' = [endpoint |-> "batch-moderate", texts |-> texts,
                   content_type |-> content_type, strictness |-> strictness]
    /\ response' = batch_moderate_content_response(texts, content_type,
                                                   strictness)
    /\ UNCHANGED <<config, now, earlier>>

send_and_log_weather_response ==
    /\ request # NoRequest
    /\ request' = NoRequest
    /\ response' = NoResponse
    /\ earlier' =
         IF earlier = NoEarlier
         THEN IF /\ request.endpoint = "weather-analyze"
                 /\ request.location \notin DOMAIN MOCK_WEATHER_DATA
                 /\ request.business_type = "retail"
              THEN [request |-> request, response |-> response,
                    interleaved |-> FALSE]
              ELSE earlier
         ELSE IF request # earlier.request
              THEN [earlier EXCEPT !.interleaved = TRUE]
              ELSE earlier
    /\ UNCHANGED <<config, now>>

NextSuite ==
    \/ /\ Idle
       /\ \E text \in DetTexts, content_type \in ContentTypes,
             strictness \in Strictness :
             moderate_content(text, content_type, strictness)
    \/ /\ Idle
       /\ \E texts \in BatchTexts, content_type \in ContentTypes,
             strictness \in Strictness :
             batch_moderate_content(texts, content_type, strictness)
    \/ health_check
    \/ /\ Idle
       /\ \E assets \in SuiteAssetLists : analyze_portfolio(assets)
    \/ /\ Idle
       /\ \E symbol \in Symbols : get_crypto_price(symbol)
    \/ get_market_overview
    \/ crypto_health_check
    \/ /\ Idle
       /\ \E email \in Emails, check_deliverability \in BOOLEAN,
             check_disposable \in BOOLEAN, check_role \in BOOLEAN,
             dns \in DnsAnswers :
             validate_email([email |-> email,
                             check_deliverability |-> check_deliverability,
                             check_disposable |-> check_disposable,
                             check_role |-> check_role, dns |-> dns])
    \/ /\ Idle
       /\ \E items \in BatchEmailLists, check_deliverability \in BOOLEAN,
             check_disposable \in BOOLEAN, check_role \in BOOLEAN :
             batch_validate_emails(
                 [items |-> items,
                  check_deliverability |-> check_deliverability,
                  check_disposable |-> check_disposable,
                  check_role |-> check_role])
    \/ /\ Idle
       /\ \E domain \in PathDomains, dns \in DnsAnswers :
             get_domain_info(domain, dns)
    \/ email_health_check
    \/ /\ Idle
       /\ \E text \in DetSentimentTexts, language \in Languages,
             include_emotions \in BOOLEAN, include_keywords \in BOOLEAN,
             blob \in DetBlobs :
             analyze_sentiment_endpoint(
                 [text |-> text, language |-> language,
                  include_emotions |-> include_emotions,
                  include_keywords |-> include_keywords, blob |-> blob])
    \/ /\ Idle
       /\ \E items \in BatchSentimentLists, language \in Languages,
             include_emotions \in BOOLEAN, include_keywords \in BOOLEAN :
             batch_analyze_sentiment(
                 [items |-> items, language |-> language,
                  include_emotions |-> include_emotions,
                  include_keywords |-> include_keywords])
    \/ get_available_emotions
    \/ sentiment_health_check
    \/ /\ Idle
       /\ \E location \in Locations, business_type \in BusinessTypes,
             analysis_type \in AnalysisTypes, forecast_days \in ForecastDays :
             analyze_weather_business_impact(
                 [location |-> location, business_type |-> business_type,
                  analysis_type |-> analysis_type,
                  forecast_days |-> forecast_days])
    \/ /\ Idle
       /\ \E location \in Locations, business_type \in BusinessTypes,
             season \in Seasons :
             get_seasonal_analysis(location, business_type, season)
    \/ /\ Idle
       /\ \E location \in Locations : get_weather_alerts(location)
    \/ weather_health_check
    \/ Tick
    \/ send_and_log_weather_response

SpecSuite == Init /\ [][NextSuite]_vars

----------------------------------------------------------------------------
(* Properties of the moderation endpoint *)

\* a moderation request has been answered with a result
Moderated == request.endpoint = "moderate" /\ response.status_code = 200

CountOf(seq, x) == Cardinality({i \in DOMAIN seq : seq[i] = x})
Has(seq, x) == \E i \in DOMAIN seq : seq[i] = x

\* the rules of a list with at least one match in the lower-cased text
RulesMatching(patterns, text) ==
    {i \in DOMAIN patterns :
        re_search(patterns[i], [k \in DOMAIN text |-> str_lower(text[k])])}

\* the strictness factor, in tenths
Multiplier10(strictness) ==
    CASE strictness = "high" -> 15
      [] strictness = "low"  -> 7
      [] OTHER               -> 10

\* C1: for every text and every strictness the confidence_score of the
\* result lies in [0, 1], also when the unclamped risk score is above 1.
C1_ConfidenceInUnitRange ==
    Moderated =>
        /\ response.body.confidence_score >= 0
        /\ response.body.confidence_score <= ScoreOne

\* several hate-speech rules match under strictness high: unclamped 2.4
C1_Witness ==
    /\ Moderated
    /\ request.strictness = "high"
    /\ CountOf(response.body.flagged_issues, "hate_speech") >= 2
    /\ risk_score(request.text, request.strictness) > ScoreOne
    /\ response.body.confidence_score = ScoreOne

BandPairs ==
    {<<"critical", "block">>, <<"high", "flag_for_review">>,
     <<"medium", "warn">>, <<"low", "allow">>}

\* C2: for every reachable risk score the classifier yields exactly one of
\* the four (risk_level, suggested_action) pairs; no score falls in a gap
\* and the classification never fails.
C2_ExactlyOneBand ==
    request.endpoint = "moderate" =>
        /\ response.status_code = 200
        /\ <<response.body.risk_level, response.body.suggested_action>>
               \in BandPairs

\* a score strictly inside the range the three lower bounds delimit
C2_Witness ==
    /\ Moderated
    /\ risk_score(request.text, request.strictness) > 0
    /\ risk_score(request.text, request.strictness) < MediumBound
    /\ response.body.risk_level = "low"

\* C3: the result is critical/block iff score >= 0.8, high/flag_for_review
\* iff 0.6 <= score < 0.8, medium/warn iff 0.4 <= score < 0.6 and low/allow
\* iff score < 0.4.
C3_TightestBand ==
    Moderated =>
        LET score == risk_score(request.text, request.strictness)
            pair  == <<response.body.risk_level,
                       response.body.suggested_action>>
        IN  /\ pair = <<"critical", "block">> <=> score >= 80
            /\ pair = <<"high", "flag_for_review">>
                   <=> (score >= 60 /\ score < 80)
            /\ pair = <<"medium", "warn">> <=> (score >= 40 /\ score < 60)
            /\ pair = <<"low", "allow">> <=> score < 40

\* a score exactly on a lower bound takes the band of that bound
C3_Witness ==
    /\ Moderated
    /\ risk_score(request.text, request.strictness) = 60
    /\ response.body.risk_level = "high"

C5_CountIsNumberOfMatches ==
    Moderated =>
        LET w == [k \in DOMAIN request.text |-> str_lower(request.text[k])]
        IN  /\ CountOf(response.body.flagged_issues, "hate_speech")
                 = FindallTotal(HATE_SPEECH_PATTERNS, w, 1)
            /\ spam_count(request.text) = FindallTotal(SPAM_PATTERNS, w, 1)
            /\ response.body.moderation_details.profanity_count
                 = FindallTotal(PROFANITY_PATTERNS, w, 1)

\* C5 (amended): the hate_speech and spam counts are the numbers of rules of
\* the group with at least one case-insensitive match (spam is flagged from
\* two rules on); the profanity count is the number of non-overlapping
\* case-insensitive matches, added up over the rules of the group.
C5_CountPerGroup ==
    Moderated =>
        LET w == [k \in DOMAIN request.text |-> str_lower(request.text[k])]
        IN  /\ CountOf(response.body.flagged_issues, "hate_speech")
                 = Cardinality(RulesMatching(HATE_SPEECH_PATTERNS,
                                             request.text))
            /\ spam_count(request.text)
                 = Cardinality(RulesMatching(SPAM_PATTERNS, request.text))
            /\ response.body.moderation_details.spam_detected
                 <=> Cardinality(RulesMatching(SPAM_PATTERNS,
                                               request.text)) >= 2
            /\ response.body.moderation_details.profanity_count
                 = FindallTotal(PROFANITY_PATTERNS, w, 1)

\* one hate-speech rule matches twice and is counted once, in upper case
C5_Witness ==
    /\ Moderated
    /\ FindallTotal(HATE_SPEECH_PATTERNS, text_lower_of(request.text), 1) >= 2
    /\ CountOf(response.body.flagged_issues, "hate_speech") = 1
    /\ upper_chars(request.text) > 0

\* C6: every signal count is a non-negative integer, a group none of whose
\* rules matches has count 0, and no text, the empty one included, makes
\* the analysis fail.
C6_CountsNatural ==
    request.endpoint = "moderate" =>
        /\ response.status_code = 200
        /\ CountOf(response.body.flagged_issues, "hate_speech") \in Nat
        /\ spam_count(request.text) \in Nat
        /\ response.body.moderation_details.profanity_count \in Nat
        /\ RulesMatching(HATE_SPEECH_PATTERNS, request.text) = {}
             => ~Has(response.body.flagged_issues, "hate_speech")
        /\ RulesMatching(SPAM_PATTERNS, request.text) = {}
             => /\ spam_count(request.text) = 0
                /\ ~response.body.moderation_details.spam_detected
        /\ RulesMatching(PROFANITY_PATTERNS, request.text) = {}
             => response.body.moderation_details.profanity_count = 0

\* the empty text is analysed: all counts 0, caps ratio 0
C6_Witness ==
    /\ Moderated
    /\ request.text = <<>>
    /\ response.body.flagged_issues = <<>>
    /\ response.body.moderation_details.profanity_count = 0
    /\ response.body.moderation_details.caps_ratio.num = 0

\* C7: exactly one hate-speech rule matching and no other signal, at
\* strictness medium, gives score 0.8, risk_level critical, action block.
C7_OneHateSpeechRule ==
    (/\ Moderated
     /\ request.strictness = "medium"
     /\ response.body.flagged_issues = <<"hate_speech">>)
    => /\ response.body.confidence_score = 80
       /\ response.body.risk_level = "critical"
       /\ response.body.suggested_action = "block"

C7_Witness ==
    /\ Moderated
    /\ request.strictness = "medium"
    /\ response.body.flagged_issues = <<"hate_speech">>
    /\ Cardinality(RulesMatching(HATE_SPEECH_PATTERNS, request.text)) = 1

\* no rule of any group matches and the caps are not excessive
NoSignal(text) ==
    /\ RulesMatching(HATE_SPEECH_PATTERNS, text) = {}
    /\ RulesMatching(SPAM_PATTERNS, text) = {}
    /\ RulesMatching(PROFANITY_PATTERNS, text) = {}
    /\ ~(10 * upper_chars(text) > 7 * text_len(text) /\ text_len(text) > 10)

\* C8: a text with no match in any group and no excessive caps gets score
\* 0.0, risk_level low and action allow, for every strictness.
C8_NoSignalIsLow ==
    (Moderated /\ NoSignal(request.text))
    => /\ response.body.confidence_score = 0
       /\ risk_score(request.text, request.strictness) = 0
       /\ response.body.risk_level = "low"
       /\ response.body.suggested_action = "allow"

\* a non-empty text without any signal, under the strictest setting
C8_Witness ==
    /\ Moderated
    /\ NoSignal(request.text)
    /\ request.text # <<>>
    /\ request.strictness = "high"
    /\ response.body.risk_level = "low"

\* C9: profanity count 3 or more and no other signal, at strictness medium,
\* contributes 0.9: confidence_score 0.9 and risk_level critical.
C9_ProfanityCapped ==
    (/\ Moderated
     /\ request.strictness = "medium"
     /\ response.body.moderation_details.profanity_count >= 3
     /\ response.body.flagged_issues = <<"profanity">>)
    => /\ response.body.confidence_score = 90
       /\ response.body.risk_level = "critical"

\* more than three profanity matches: the cap is what gives 0.9
C9_Witness ==
    /\ Moderated
    /\ request.strictness = "medium"
    /\ response.body.moderation_details.profanity_count > 3
    /\ response.body.flagged_issues = <<"profanity">>
    /\ response.body.confidence_score = 90

\* C10: a moderation request that equals one served earlier gets the
\* response that one got, whatever was served in between.
C10_Deterministic ==
    (request.endpoint = "moderate" /\ request = earlier.request)
    => response = earlier.response

\* the same request is served again after a different one
C10_Witness ==
    /\ request.endpoint = "moderate"
    /\ request = earlier.request
    /\ earlier.interleaved
    /\ response.status_code = 200
    /\ response.body.flagged_issues # <<>>

\* C15: a text in which no rule matches and whose caps are not excessive,
\* moderated at strictness medium, is answered with is_appropriate true,
\* flagged_issues empty, risk_level low and confidence_score 0.95.
C15_DocumentedCleanText ==
    (Moderated /\ request.strictness = "medium" /\ NoSignal(request.text))
    => /\ response.body.is_appropriate
       /\ response.body.flagged_issues = <<>>
       /\ response.body.risk_level = "low"
       /\ response.body.confidence_score = 95

\* the band of a score in hundredths, and the action of a band
LevelOf(score) ==
    IF score >= 80 THEN "critical"
    ELSE IF score >= 60 THEN "high"
    ELSE IF score >= 40 THEN "medium"
    ELSE "low"

ActionOf(level) ==
    CASE level = "critical" -> "block"
      [] level = "high"     -> "flag_for_review"
      [] level = "medium"   -> "warn"
      [] level = "low"      -> "allow"

Rank(level) ==
    CASE level = "low"      -> 0
      [] level = "medium"   -> 1
      [] level = "high"     -> 2
      [] level = "critical" -> 3

\* C19: the strictness factor is 0.7 for low, 1.5 for high and 1.0 for
\* every other value; for the text of the request the risk level at low is
\* not above the one at medium, which is not above the one at high, and
\* is_appropriate at a stricter setting implies it at a laxer one.
C19_StrictnessMonotone ==
    Moderated =>
        LET at(s) == analyze_content(request.text, request.content_type, s)
        IN  /\ response.body = at(request.strictness)
            /\ Multiplier10(request.strictness) \in {7, 10, 15}
            /\ 10 * risk_score(request.text, request.strictness)
                   = Multiplier10(request.strictness)
                         * base_risk_score(request.text)
            /\ Rank(at("low").risk_level) <= Rank(at("medium").risk_level)
            /\ Rank(at("medium").risk_level) <= Rank(at("high").risk_level)
            /\ at("high").is_appropriate => at("medium").is_appropriate
            /\ at("medium").is_appropriate => at("low").is_appropriate
            /\ at("extreme") =
                   [at("medium") EXCEPT
                       !.moderation_details.strictness_level = "extreme"]

\* a text whose level is different at each of the three settings, served
\* under an unrecognised strictness
C19_Witness ==
    /\ Moderated
    /\ request.strictness = "extreme"
    /\ classify(risk_score(request.text, "low")).risk_level = "medium"
    /\ response.body.risk_level = "high"
    /\ classify(risk_score(request.text, "high")).risk_level = "critical"

HateSpeechFlagged ==
    Moderated /\ Has(response.body.flagged_issues, "hate_speech")

\* the only signal of the text is a match of one hate-speech rule
OnlyOneHateRule(text) ==
    /\ Cardinality(RulesMatching(HATE_SPEECH_PATTERNS, text)) = 1
    /\ flagged_issues(text) = <<"hate_speech">>

\* C20 as stated: whenever flagged_issues contains hate_speech,
\* is_appropriate is false, at every strictness.
C20_HateSpeechNeverAppropriate ==
    HateSpeechFlagged => ~ response.body.is_appropriate

\* C20: whenever flagged_issues contains hate_speech, is_appropriate is false
\* at every strictness other than low; at strictness low it is false unless
\* one hate-speech rule match is the only signal of the text, and then the
\* score is 0.56, the level medium and is_appropriate true.
C20_HateSpeechInappropriateUnlessLowAndAlone ==
    HateSpeechFlagged =>
        IF request.strictness = "low" /\ OnlyOneHateRule(request.text)
        THEN /\ response.body.is_appropriate
             /\ response.body.confidence_score = 56
             /\ response.body.risk_level = "medium"
        ELSE ~ response.body.is_appropriate

\* one hate-speech rule and profanity, at strictness low: 1.1 * 0.7
C20_Witness ==
    /\ HateSpeechFlagged
    /\ request.strictness = "low"
    /\ response.body.flagged_issues = <<"hate_speech", "profanity">>
    /\ response.body.moderation_details.profanity_count = 1
    /\ response.body.confidence_score = 77

----------------------------------------------------------------------------
(* Properties of the cryptocurrency endpoints *)

PriceAsked     == request.endpoint = "price"
PortfolioAsked == request.endpoint = "analyze-portfolio"

\* C13: a price request for a symbol with no known price is answered with
\* status 404, "Price not found": a client error, not a server error.
C13_UnknownSymbolIs404 ==
    (PriceAsked /\ get_current_price(request.symbol) = 0) =>
        /\ response.status_code = 404
        /\ response.detail = "Price not found"

\* the portfolio of the documented example: 1.5 BTC bought at 40000 and
\* 10 ETH bought at 3000
ExamplePortfolio ==
    << [symbol |-> "BTC", quantity |-> 3,  purchase_price |-> 400],
       [symbol |-> "ETH", quantity |-> 20, purchase_price |-> 30] >>

\* a percentage p with lo/1000 <= p < hi/1000
PercentWithin(p, lo, hi) ==
    /\ lo * p.den <= 100000 * p.num
    /\ 100000 * p.num < hi * p.den

\* C14: for the documented example portfolio the analysis returns
\* total_value 67500, total_profit_loss 1500, profit_loss_percentage about
\* 2.27 and risk level medium.  (67500 USD is 1350 units of 50 USD, 1500
\* USD is 30.)
C14_DocumentedPortfolio ==
    (PortfolioAsked /\ request.assets = ExamplePortfolio) =>
        /\ response.status_code = 200
        /\ response.body.total_value = 1350
        /\ response.body.total_profit_loss = 30
        /\ PercentWithin(response.body.profit_loss_percentage, 2265, 2275)
        /\ response.body.risk_analysis.risk_level = "medium"

\* the sum of one field over the assets of portfolio_data, from i on
RECURSIVE FieldSumFrom(_, _, _)
FieldSumFrom(data, field, i) ==
    IF i > Len(data) THEN 0
    ELSE data[i][field] + FieldSumFrom(data, field, i + 1)

\* C17: for every list of assets the totals of calculate_portfolio_metrics
\* are the sums of the per-asset invested and current values, the total
\* profit or loss is their difference and the sum of the per-asset profit
\* or loss, negative when it is a loss, and a percentage whose invested
\* amount is not positive is 0 instead of a division error.
C17_PortfolioTotals ==
    PortfolioAsked =>
        LET m    == calculate_portfolio_metrics(request.assets)
            data == m.portfolio_data
        IN  /\ Len(data) = Len(request.assets)
            /\ m.total_invested = FieldSumFrom(data, "invested_value", 1)
            /\ m.total_current_value
                   = FieldSumFrom(data, "current_value", 1)
            /\ m.total_profit_loss
                   = m.total_current_value - m.total_invested
            /\ m.total_profit_loss = FieldSumFrom(data, "profit_loss", 1)
            /\ ~ ZeroDivisionError(m.total_profit_loss_percentage)
            /\ m.total_invested <= 0
                   => m.total_profit_loss_percentage = ZeroPercent
            /\ \A i \in DOMAIN data :
                   /\ ~ ZeroDivisionError(data[i].profit_loss_percentage)
                   /\ data[i].invested_value <= 0
                          => data[i].profit_loss_percentage = ZeroPercent
            /\ response.status_code = 200
                   => response.body.portfolio_metrics = m

\* a portfolio at a loss, with an asset that cost nothing, was analysed
C17_Witness ==
    /\ PortfolioAsked
    /\ response.status_code = 200
    /\ response.body.total_profit_loss < 0
    /\ response.body.total_invested > 0
    /\ \E i \in DOMAIN response.body.portfolio_metrics.portfolio_data :
           response.body.portfolio_metrics.portfolio_data[i].invested_value
               <= 0

----------------------------------------------------------------------------
(* Properties of the weather endpoints *)

\* C16: for location New York and business type retail the analysis has
\* sales_forecast high, product_recommendations with summer clothing and
\* beverages, overall risk low, and the recommendation to increase the
\* inventory of weather-appropriate products.
C16_DocumentedRetailExample ==
    (/\ request.endpoint = "weather-analyze"
     /\ request.location = "New York"
     /\ request.business_type = "retail")
    => /\ response.status_code = 200
       /\ response.body.business_impact.sales_forecast = "high"
       /\ Has(response.body.business_impact.product_recommendations,
              "summer clothing")
       /\ Has(response.body.business_impact.product_recommendations,
              "beverages")
       /\ response.body.risk_assessment.overall_risk = "low"
       /\ Has(response.body.recommendations,
              "Increase inventory of weather-appropriate products")

----------------------------------------------------------------------------
(* Properties of the sentiment endpoints *)

\* the analysis request kept in the history is served again
SameAnalysisAgain ==
    request.endpoint = "sentiment-analyze" /\ request = earlier.request

\* C11 as stated: running the analysis twice on the same request, with the
\* same values from TextBlob, yields identical responses in every field,
\* analysis_details included.
C11_IdenticalResponses ==
    SameAnalysisAgain => response = earlier.response

\* a response with the time of the analysis blanked
WithoutTimestamp(resp) ==
    IF resp.status_code = 200
    THEN [resp EXCEPT !.body.analysis_details.analysis_timestamp = 0]
    ELSE resp

\* C11: running the analysis twice on the same request, with the same
\* values from TextBlob, yields responses that are identical in every field
\* other than analysis_details.analysis_timestamp, which is the time of
\* each run.
C11_IdenticalButTimestamp ==
    SameAnalysisAgain =>
        /\ WithoutTimestamp(response) = WithoutTimestamp(earlier.response)
        /\ response.status_code = 200
               => response.body.analysis_details.analysis_timestamp = now

\* the same request is analysed a second time, later, after another one
C11_Witness ==
    /\ SameAnalysisAgain
    /\ earlier.interleaved
    /\ response.status_code = 200
    /\ response.body.analysis_details.analysis_timestamp
           # earlier.response.body.analysis_details.analysis_timestamp
    /\ response.body.emotions # EmptyDict
    /\ response.body.keywords # <<>>

\* C26: the analysis of an empty list of assets completes: status 200,
\* totals of 0, empty best_performer and worst_performer, risk level
\* "unknown" and at least one recommendation.
C26_EmptyPortfolioSucceeds ==
    (PortfolioAsked /\ request.assets = <<>>) =>
        /\ response.status_code = 200
        /\ response.body.total_value = 0
        /\ response.body.total_invested = 0
        /\ response.body.total_profit_loss = 0
        /\ response.body.best_performer = EmptyDict
        /\ response.body.worst_performer = EmptyDict
        /\ response.body.risk_analysis.risk_level = "unknown"
        /\ response.body.recommendations # <<>>

----------------------------------------------------------------------------
(* Properties of the email endpoints *)

\* POST /validate has been answered with a validation result
EmailValidated ==
    /\ request.endpoint = "validate"
    /\ response.status_code = 200

\* the five conditions of the score, from what was asked and what the
\* resolver answered
FormatHolds == FormatMatches(request.email)
DomainHolds == request.dns.resolves
MxHolds     == request.dns.mx = "records"
NotDisposableHolds ==
    ~ (/\ request.check_disposable
       /\ email_lower(request.email.domain) \in DisposableDomainSet)
NotRoleHolds ==
    ~ (/\ request.check_role
       /\ email_lower(request.email.local_part) \in RoleAccountSet)

C22_LowConfidenceOnlyBelowHalf ==
    EmailValidated =>
        LET body == response.body
        IN  /\ (\E i \in DOMAIN body.recommendations :
                    body.recommendations[i] =
                        "Low confidence score. Manual verification recommended.")
                   => body.confidence_score < 50
            /\ body.confidence_score = 100
                   => body.recommendations =
                          <<"Email appears valid and deliverable.">>

\* C23: in every validation response is_deliverable implies is_valid and
\* implies not is_disposable: is_valid is "format valid and domain exists",
\* is_deliverable is "is_valid and MX record exists and not disposable"; with
\* check_disposable (check_role) false, is_disposable (is_role_account) is
\* reported false whatever the address.
C23_DeliverableImpliesValid ==
    EmailValidated =>
        LET body == response.body
        IN  /\ body.is_deliverable => (body.is_valid /\ ~ body.is_disposable)
            /\ body.is_valid = (FormatHolds /\ DomainHolds)
            /\ body.is_deliverable
                   = (body.is_valid /\ MxHolds /\ ~ body.is_disposable)
            /\ ~ request.check_disposable => ~ body.is_disposable
            /\ ~ request.check_role => ~ body.is_role_account

\* an address at a disposable domain, the disposable check switched off, is
\* reported deliverable and not disposable
C23_Witness ==
    /\ EmailValidated
    /\ request.email = [local_part |-> "alice", domain |-> "mailinator.com"]
    /\ ~ request.check_disposable
    /\ request.check_role
    /\ response.body.is_deliverable
    /\ response.body.is_valid
    /\ ~ response.body.is_disposable

\* the validation of item i of the batch fails: the resolver raises an
\* exception check_domain_exists does not catch
BatchItemFails(i) == request.items[i].dns.mx = "timeout"

\* C24: batch_validate_emails returns one result per input email, in input
\* order, with total_processed = the number of inputs and
\* deliverable_count <= valid_count <= total_processed; an email whose
\* validation fails (validate_email raising its HTTPException) gets an entry
\* with is_valid false, and the other emails are validated all the same.
C24_BatchOneResultPerEmail ==
    request.endpoint = "batch-validate" =>
        /\ response.status_code = 200
        /\ LET body == response.body
               n    == Len(request.items)
           IN  /\ Len(body.results) = n
               /\ body.total_processed = n
               /\ body.deliverable_count <= body.valid_count
               /\ body.valid_count <= body.total_processed
               /\ \A i \in 1..n :
                      /\ body.results[i].email = request.items[i].email
                      /\ BatchItemFails(i)
                             => /\ body.results[i].is_valid = FALSE
                                /\ "error" \in DOMAIN body.results[i]
                      /\ ~ BatchItemFails(i)
                             => /\ "error" \notin DOMAIN body.results[i]
                                /\ "confidence_score"
                                       \in DOMAIN body.results[i]
                                /\ body.results[i].domain_exists
                                       = request.items[i].dns.resolves

\* the first email of a batch fails and the second is valid and deliverable
C24_Witness ==
    /\ request.endpoint = "batch-validate"
    /\ Len(request.items) = 2
    /\ BatchItemFails(1)
    /\ ~ BatchItemFails(2)
    /\ response.status_code = 200
    /\ response.body.results[1].is_valid = FALSE
    /\ response.body.results[2].is_valid
    /\ response.body.total_processed = 2
    /\ response.body.valid_count = 1
    /\ response.body.deliverable_count = 1

----------------------------------------------------------------------------
(* Properties of the sentiment batch *)

\* the analysis of item i of the batch fails
BatchTextFails(i) == request.items[i].blob.raises

\* the polarities of the items from i on, a failed one counting as 0
RECURSIVE PolaritySumFrom(_, _)
PolaritySumFrom(items, i) ==
    IF i > Len(items) THEN 0
    ELSE (IF items[i].blob.raises THEN 0 ELSE items[i].blob.polarity)
         + PolaritySumFrom(items, i + 1)

\* C25: batch_analyze_sentiment returns one result per input text, in input
\* order, and positive_count + negative_count + neutral_count =
\* total_processed = the number of input texts; a text whose analysis fails
\* is recorded with sentiment_score 0 and sentiment_label "neutral", so it
\* counts as neutral and enters the average, and the other texts are
\* analysed all the same.
C25_BatchCountsAddUp ==
    request.endpoint = "batch-analyze" =>
        /\ response.status_code = 200
        /\ LET body  == response.body
               stats == body.aggregate_stats
               n     == Len(request.items)
               failed == {i \in 1..n : BatchTextFails(i)}
           IN  /\ Len(body.results) = n
               /\ body.total_processed = n
               /\ stats.positive_count + stats.negative_count
                      + stats.neutral_count = n
               /\ stats.neutral_count >= Cardinality(failed)
               /\ n > 0 => stats.avg_sentiment.num * n
                              = PolaritySumFrom(request.items, 1)
                                   * stats.avg_sentiment.den
               /\ \A i \in 1..n :
                      /\ body.results[i].text = request.items[i].text
                      /\ i \in failed
                             => /\ body.results[i].sentiment_score = 0
                                /\ body.results[i].sentiment_label = "neutral"
                                /\ "error" \in DOMAIN body.results[i]
                      /\ i \notin failed
                             => /\ "error" \notin DOMAIN body.results[i]
                                /\ body.results[i].sentiment_score
                                       = request.items[i].blob.polarity

\* the first text of a batch fails and the second is positive: one neutral,
\* one positive, and the average is half the polarity of the second
C25_Witness ==
    /\ request.endpoint = "batch-analyze"
    /\ Len(request.items) = 2
    /\ BatchTextFails(1)
    /\ ~ BatchTextFails(2)
    /\ response.status_code = 200
    /\ response.body.results[2].sentiment_label = "positive"
    /\ response.body.aggregate_stats.neutral_count = 1
    /\ response.body.aggregate_stats.positive_count = 1
    /\ response.body.aggregate_stats.avg_sentiment.num * 2
           = 60 * response.body.aggregate_stats.avg_sentiment.den

\* extract_emotions has returned
EmotionsExtracted ==
    /\ request.endpoint = "extract_emotions"
    /\ response.status_code = 200

\* the occurrences in the text of the keywords of a group: the words that,
\* lower-cased and without their punctuation, are one of its keywords
Occurrences(emotion, text) ==
    Cardinality({i \in DOMAIN text :
                    \E k \in DOMAIN EmotionKeywordTable[emotion] :
                        EmotionKeywordTable[emotion][k]
                            = Letters(sentiment_lower(text[i]))})

----------------------------------------------------------------------------
(* Properties of the suite *)

\* C12: no handler changes the tables of the modules: after any sequence of
\* requests the moderation pattern lists, EMOTION_KEYWORDS, MOCK_PRICES,
\* MOCK_WEATHER_DATA, DISPOSABLE_DOMAINS and ROLE_ACCOUNTS are what they
\* were when the modules were loaded, and a request served again after
\* other requests gets the response it got before.
C12_ConfigurationUnchanged ==
    /\ HATE_SPEECH_PATTERNS = HateSpeechPatternList
    /\ SPAM_PATTERNS = SpamPatternList
    /\ PROFANITY_PATTERNS = ProfanityPatternList
    /\ EMOTION_KEYWORDS = EmotionKeywordTable
    /\ MOCK_PRICES = MockPriceTable
    /\ MOCK_WEATHER_DATA = MockWeatherTable
    /\ DISPOSABLE_DOMAINS = DisposableDomainSet
    /\ ROLE_ACCOUNTS = RoleAccountSet
    /\ (request.endpoint = "weather-analyze" /\ request = earlier.request)
           => response = earlier.response

\* the analysis for a location that is not in the table is served a second
\* time, after requests to other endpoints
C12_Witness ==
    /\ request.endpoint = "weather-analyze"
    /\ request = earlier.request
    /\ earlier.interleaved
    /\ request.location \notin DOMAIN MOCK_WEATHER_DATA
    /\ response.body.current_weather = MockWeatherTable["New York"].current
    /\ now > 0

====
